---- MODULE Spec2Model ----
(***************************************************************************)
(* Model of the code-review backend: the language classifier, the          *)
(* heuristic review engine, the remote-response parser and the report      *)
(* formatter (backend/services/llm_review.py, report_formatter.py).        *)
(*                                                                         *)
(* Text is held at the granularity the code inspects it:                   *)
(*   - a filename is a sequence of characters;                             *)
(*   - a content line is a sequence of tokens, each token standing for a   *)
(*     fixed piece of text (TokSubs and TokLen give the facts the code      *)
(*     reads); the tokens are chosen so that no substring the code         *)
(*     searches for straddles two tokens;                                  *)
(*   - a content is its leading lines followed by `pad` further lines      *)
(*     holding the text "x".                                               *)
(* Numbers with a fractional part are held as integers in a fixed unit     *)
(* (halves for the scores), named in the definitions that use them.        *)
(***************************************************************************)
EXTENDS Integers, Sequences, FiniteSets, TLC

VARIABLES
    filename,      \* the filename argument
    content,       \* the content argument: [lines, pad]
    use_real_llm,  \* LLMReviewService.use_real_llm
    response,      \* what the remote model answers when it is called
    pc,            \* position of the call sequence
    language,      \* outcome of detect_language
    review,        \* outcome of analyze_code
    report,        \* result of format_review
    table,         \* the rows of review_records
    clock,         \* the database's CURRENT_TIMESTAMP, in whole seconds
    request,       \* the HTTP request served last
    reply,         \* the answer to it
    handled,       \* the outcome of each call of upload_and_review_code made for it
    live,          \* history: the rows committed and not deleted since, by id
    sessions,      \* the number of Sessions of SessionLocal that are open
    reports,       \* the files of the directory reports/, by name
    links,         \* history: the pdf_report links answered, each with its report
    tasks,         \* the service calls in flight, one per caller
    rng            \* the state of the process-wide random generator

serviceVars == <<filename, content, use_real_llm, response, pc, language, review, report>>

routeVars == <<table, clock, request, reply, handled, live, sessions, reports, links>>

taskVars == <<tasks, rng>>

vars == <<filename, content, use_real_llm, response, pc, language, review, report,
          table, clock, request, reply, handled, live, sessions, reports, links,
          tasks, rng>>

None == "<none>"

(***************************************************************************)
(* Bounds of the model.                                                    *)
(***************************************************************************)
MaxNameLen == 4
MaxLines == 2
MaxIssues == 5
MaxSuggestions == 7
MaxRemoteIssues == 2

(***************************************************************************)
(* Generic helpers.                                                        *)
(***************************************************************************)
Min(a, b) == IF a <= b THEN a ELSE b

Max(a, b) == IF a >= b THEN a ELSE b

SeqsUpTo(S, n) == UNION {[1..k -> S] : k \in 0..n}

\* s[a+1 .. b] in Python's slice notation s[a:b], for 0 <= a
Slice(s, a, b) == SubSeq(s, a + 1, Min(b, Len(s)))

(***************************************************************************)
(* Characters, str.lower() and str.split('.')[-1].                         *)
(***************************************************************************)
NameChars == {".", "p", "y", "P", "Y", "c"}

LowerChar(ch) ==
    CASE ch = "P" -> "p"
      [] ch = "Y" -> "y"
      [] ch = "H" -> "h"
      [] ch = "I" -> "i"
      [] ch = "G" -> "g"
      [] ch = "L" -> "l"
      [] ch = "O" -> "o"
      [] ch = "W" -> "w"
      [] OTHER -> ch

lower(s) == [k \in 1..Len(s) |-> LowerChar(s[k])]

\* s.split('.'): the pieces of s between its '.' characters, in order; one
\* more piece than s has '.' characters
split(s) ==
    LET dots == {k \in 1..Len(s) : s[k] = "."}
        n == Cardinality(dots)
        \* the position of the j-th '.', 0 before the first, Len(s) + 1 after the last
        at(j) == IF j = 0 THEN 0
                 ELSE IF j > n THEN Len(s) + 1
                 ELSE CHOOSE k \in dots : Cardinality({d \in dots : d <= k}) = j
    IN  [j \in 1..(n + 1) |-> SubSeq(s, at(j - 1) + 1, at(j) - 1)]

\* parts[-1]: the last item, IndexError on an empty list
LastItem(parts) ==
    IF parts = <<>> THEN [raised |-> TRUE, exc |-> "IndexError", value |-> <<>>]
    ELSE [raised |-> FALSE, exc |-> "", value |-> parts[Len(parts)]]

(***************************************************************************)
(* LLMReviewService.supported_languages and detect_language.               *)
(***************************************************************************)
supported_languages ==
    {
      << <<".", "p", "y">>, "Python" >>,
      << <<".", "j", "s">>, "JavaScript" >>,
      << <<".", "j", "a", "v", "a">>, "Java" >>,
      << <<".", "c", "p", "p">>, "C++" >>,
      << <<".", "c">>, "C" >>,
      << <<".", "t", "s">>, "TypeScript" >>,
      << <<".", "g", "o">>, "Go" >>,
      << <<".", "r", "s">>, "Rust" >>,
      << <<".", "p", "h", "p">>, "PHP" >>,
      << <<".", "r", "b">>, "Ruby" >>,
      << <<".", "t", "x", "t">>, "Text" >>
    }

\* dict.get(key, default) on supported_languages
LanguageGet(key, default) ==
    IF \E e \in supported_languages : e[1] = key
    THEN (CHOOSE e \in supported_languages : e[1] = key)[2]
    ELSE default

\* faulty variant: the extension is looked up as written
detect_language_NoLower(name) ==
    LET last == LastItem(split(name))
    IN  IF last.raised THEN last
        ELSE [raised |-> FALSE, exc |-> "",
              value |-> LanguageGet(<<".">> \o last.value, "Unknown")]

\* LLMReviewService.detect_language: the label, or the exception raised
detect_language(name) ==
    LET last == LastItem(split(name))
    IN  IF last.raised THEN last
        ELSE [raised |-> FALSE, exc |-> "",
              value |-> LanguageGet(<<".">> \o lower(last.value), "Unknown")]

(***************************************************************************)
(* Content text: tokens, the substrings the code searches for, lengths.    *)
(***************************************************************************)
DOC == "\"\"\""

INDENT == "    "

\* 100 characters "x"
X100 == "x*100"

\* the searched substrings that occur in the text of a token
TokSubs(tok) ==
    CASE tok = "def "    -> {"def "}
      [] tok = "global " -> {"global "}
      [] tok = "print("  -> {"print(", "int(", "n"}
      [] tok = "/"       -> {"/"}
      [] tok = "="       -> {"="}
      [] tok = "n"       -> {"n"}
      [] tok = "range("  -> {"range(", "n"}
      [] tok = "["       -> {"["}
      [] tok = "input("  -> {"input(", "n"}
      [] tok = "int("    -> {"int(", "n"}
      [] tok = "http://" -> {"http://", "/"}
      [] tok = DOC       -> {DOC}
      [] tok = "#"       -> {"#"}
      [] tok = "TODO"    -> {"TODO"}
      [] tok = "tmp"     -> {"tmp"}
      [] tok = INDENT    -> {INDENT}
      [] OTHER           -> {}

\* len(tok)
TokLen(tok) ==
    CASE tok = "def "    -> 4
      [] tok = "global " -> 7
      [] tok = "print("  -> 6
      [] tok = "range("  -> 6
      [] tok = "input("  -> 6
      [] tok = "int("    -> 4
      [] tok = "http://" -> 7
      [] tok = DOC       -> 3
      [] tok = "TODO"    -> 4
      [] tok = "tmp"     -> 3
      [] tok = INDENT    -> 4
      [] tok = X100      -> 100
      [] OTHER           -> 1

IsSpace(tok) == tok = INDENT

\* tokens whose text ends with one space
EndsWithSpace(tok) == tok \in {"def ", "global "}

\* sub in line
Contains(line, sub) == \E k \in 1..Len(line) : sub \in TokSubs(line[k])

\* sub in content
ContentContains(c, sub) == \E k \in 1..Len(c.lines) : Contains(c.lines[k], sub)

\* line.strip(), as the tokens left; a last token's own trailing space is
\* accounted for by StartsWith and StrLen
strip(line) ==
    LET keep == {k \in 1..Len(line) : ~IsSpace(line[k])}
    IN  IF keep = {} THEN <<>>
        ELSE SubSeq(line, CHOOSE a \in keep : \A j \in keep : a <= j,
                          CHOOSE b \in keep : \A j \in keep : j <= b)

RECURSIVE SumLen(_)
SumLen(toks) == IF toks = <<>> THEN 0 ELSE TokLen(Head(toks)) + SumLen(Tail(toks))

\* len(line) of a stripped line
StrLen(stripped) ==
    IF stripped = <<>> THEN 0
    ELSE SumLen(stripped) - (IF EndsWithSpace(stripped[Len(stripped)]) THEN 1 ELSE 0)

\* stripped.startswith(prefix), prefix being the text of one token
StartsWith(stripped, prefix) ==
    /\ stripped # <<>>
    /\ stripped[1] = prefix
    /\ EndsWithSpace(prefix) => Len(stripped) >= 2

PlainLine == <<"x">>

\* len(content.split('\n'))
LineCount(c) == Len(c.lines) + c.pad

\* lines[k - 1], k counted from 1
LineAt(c, k) == IF k <= Len(c.lines) THEN c.lines[k] ELSE PlainLine


(***************************************************************************)
(* Outcomes of a call: a returned value or a raised exception.             *)
(***************************************************************************)
Returned(v) == [raised |-> FALSE, exc |-> "", value |-> v]

Raised(e) == [raised |-> TRUE, exc |-> e, value |-> <<>>]

\* the exception classes that are subclasses of Exception
ExceptionClasses ==
    {"ApiError", "JSONDecodeError", "ValueError", "TypeError", "AttributeError",
     "ValidationError", "IndexError"}

\* isinstance(exc, cls) for the classes the handlers name
IsInstance(exc, cls) ==
    \/ exc = cls
    \/ cls = "Exception" /\ exc \in ExceptionClasses
    \/ cls = "ValueError" /\ exc \in {"JSONDecodeError", "ValidationError"}

(***************************************************************************)
(* ReviewSeverity, CodeIssue.                                              *)
(***************************************************************************)
LOW == "low"

MEDIUM == "medium"

HIGH == "high"

CRITICAL == "critical"

ReviewSeverity == {LOW, MEDIUM, HIGH, CRITICAL}

CodeIssue(line_number, issue_type, severity, description, suggestion) ==
    [line_number |-> line_number, issue_type |-> issue_type, severity |-> severity,
     description |-> description, suggestion |-> suggestion]

\* len([i for i in issues if i.severity == sev])
CountSeverity(issues, sev) == Cardinality({k \in 1..Len(issues) : issues[k].severity = sev})

(***************************************************************************)
(* LLMReviewService._generate_mock_issues: the checks of one line, in the  *)
(* order of the loop body; i is the 1-based line number.                   *)
(***************************************************************************)
DOC2 == "'''"

LongLineLimit == 100

LongLineIssue(line, i) ==
    IF StrLen(line) > LongLineLimit
    THEN <<CodeIssue(i, "style", LOW, <<"Line is too long", i, StrLen(line)>>,
                     "Consider breaking this line into multiple lines")>>
    ELSE <<>>

DivisionIssue(line, i) ==
    IF Contains(line, "/") /\ Contains(line, "n") /\ Contains(line, "=")
    THEN <<CodeIssue(i, "bug", CRITICAL, <<"Potential division by zero on line", i>>,
                     "Add validation to ensure divisor is not zero before division")>>
    ELSE <<>>

ArrayBoundsIssue(line, i) ==
    IF Contains(line, "range(") /\ Contains(line, "[")
    THEN <<CodeIssue(i, "bug", HIGH, <<"Potential array index out of bounds on line", i>>,
                     "Verify array size matches range bounds")>>
    ELSE <<>>

InputValidationIssue(line, i) ==
    IF Contains(line, "input(") /\ Contains(line, "int(")
    THEN <<CodeIssue(i, "security", MEDIUM, <<"Missing input validation on line", i>>,
                     "Add try-catch block to handle invalid input")>>
    ELSE <<>>

GlobalIssue(line, i) ==
    IF StartsWith(line, "global ")
    THEN <<CodeIssue(i, "maintainability", MEDIUM, <<"Use of global variables on line", i>>,
                     "Consider refactoring to avoid global state")>>
    ELSE <<>>

PrintIssue(line, i) ==
    IF StartsWith(line, "print(")
    THEN <<CodeIssue(i, "style", LOW, <<"Use of print statement on line", i>>,
                     "Consider using proper logging instead of print statements")>>
    ELSE <<>>

\* faulty variant: the line after every 'def ' line is read
NextLineIndex_NoGuard(c, line, i) == IF StartsWith(line, "def ") THEN i ELSE -1

\* the index into `lines` (0-based) that the first docstring check reads at
\* line i as lines[i], -1 when it reads none
NextLineIndex(c, line, i) ==
    IF StartsWith(line, "def ") /\ i < LineCount(c) - 1
    THEN IF i < LineCount(c) THEN i ELSE -1
    ELSE -1

\* the first docstring check: the line after a 'def ' line
DocstringNextIssue(c, line, i) ==
    IF StartsWith(line, "def ") /\ i < LineCount(c) - 1
    THEN LET idx == NextLineIndex(c, line, i)
             next_line == IF idx >= 0 THEN strip(LineAt(c, idx + 1)) ELSE <<>>
         IN  IF ~StartsWith(next_line, DOC) /\ ~StartsWith(next_line, DOC2)
             THEN <<CodeIssue(i, "documentation", MEDIUM,
                              <<"Function on line lacks documentation", i>>,
                              "Add a docstring to describe the function's purpose and parameters")>>
             ELSE <<>>
    ELSE <<>>

\* the second docstring check: lines[max(0, i-3):i], the line itself included
DocstringPrevIssue(c, line, i) ==
    IF /\ StartsWith(line, "def ")
       /\ ~\E k \in (Max(0, i - 3) + 1)..Min(i, LineCount(c)) :
              Contains(LineAt(c, k), DOC) \/ Contains(LineAt(c, k), DOC2)
    THEN <<CodeIssue(i, "documentation", MEDIUM,
                     <<"Function at line lacks documentation", i>>,
                     "Add a docstring to describe the function's purpose")>>
    ELSE <<>>

UrlIssue(line, i) ==
    IF Contains(line, "http://") \/ Contains(line, "https://")
    THEN <<CodeIssue(i, "maintainability", MEDIUM, <<"Hardcoded URL found at line", i>>,
                     "Consider using environment variables or configuration files")>>
    ELSE <<>>

\* faulty variant: the URL check is made first
LineIssues_UrlFirst(c, i) ==
    LET line == strip(LineAt(c, i))
    IN  IF line = <<>> THEN <<>>
        ELSE UrlIssue(line, i)
             \o LongLineIssue(line, i) \o DivisionIssue(line, i) \o ArrayBoundsIssue(line, i)
             \o InputValidationIssue(line, i) \o GlobalIssue(line, i) \o PrintIssue(line, i)
             \o DocstringNextIssue(c, line, i) \o DocstringPrevIssue(c, line, i)

\* one iteration of the loop over enumerate(lines, 1)
LineIssues(c, i) ==
    LET line == strip(LineAt(c, i))
    IN  IF line = <<>> THEN <<>>
        ELSE LongLineIssue(line, i) \o DivisionIssue(line, i) \o ArrayBoundsIssue(line, i)
             \o InputValidationIssue(line, i) \o GlobalIssue(line, i) \o PrintIssue(line, i)
             \o DocstringNextIssue(c, line, i) \o DocstringPrevIssue(c, line, i)
             \o UrlIssue(line, i)

\* what the iterations of lines a..b append to `issues`, in line order
RECURSIVE ScanLines(_, _, _)
ScanLines(c, a, b) ==
    IF a > b THEN <<>>
    ELSE IF a = b THEN LineIssues(c, a)
    ELSE LET m == (a + b) \div 2
         IN  ScanLines(c, a, m) \o ScanLines(c, m + 1, b)

\* the list `issues` when the loop ends
DetectedIssues(c) == ScanLines(c, 1, LineCount(c))

IssueCap == 10

\* faulty variant: the list is not cut
generate_mock_issues_NoCap(c) == DetectedIssues(c)

\* issues[:10]
generate_mock_issues(c) == Slice(DetectedIssues(c), 0, IssueCap)


(***************************************************************************)
(* Numbers with one binary digit after the point, held in halves.          *)
(***************************************************************************)
\* int(x) of Python for x = h/2: truncation toward zero
IntOfHalves(h) == IF h >= 0 THEN h \div 2 ELSE -((-h) \div 2)

\* faulty variant: the half is cut off, as int() does
RoundOfHalves_Truncates(h) == h \div 2

\* faulty variant: an exact half goes up
RoundOfHalves_HalfUp(h) == (h + 1) \div 2

\* round(x) of Python for x = h/2: to the nearest integer, an exact half to
\* the even neighbour
RoundOfHalves(h) ==
    LET f == h \div 2
    IN  IF h % 2 = 0 THEN f
        ELSE IF f % 2 = 0 THEN f ELSE f + 1

(***************************************************************************)
(* LLMReviewService: the feedback texts of the heuristic engine, each a    *)
(* sequence of sentences; a sentence of potential_bugs or summary is the   *)
(* tuple of its fixed text and the values formatted into it.               *)
(***************************************************************************)
\* content.count(sub): the number of tokens holding sub
CountSub(c, sub) ==
    Cardinality(UNION {{<<k, j>> : j \in {j \in 1..Len(c.lines[k]) : sub \in TokSubs(c.lines[k][j])}} :
                       k \in 1..Len(c.lines)})

\* any(word in content.lower() for word in [...]): no token of the model
\* has an upper-case letter of these words
HasGenericName(c) == \E w \in {"temp", "tmp", "var", "data"} : ContentContains(c, w)

\* len([line for line in content.split('\n') if line.strip().startswith('#')])
CommentLines(c) ==
    Cardinality({k \in 1..Len(c.lines) : StartsWith(strip(c.lines[k]), "#")})

get_readability_feedback(c, line_count) ==
    << IF line_count < 50 THEN "Code is concise and well-structured."
       ELSE IF line_count < 150 THEN "Code is moderately sized with decent organization."
       ELSE "Code is quite lengthy and could benefit from better modularization.",
       IF HasGenericName(c) THEN "Some variable names could be more descriptive."
       ELSE "Variable naming is generally clear and meaningful.",
       IF CommentLines(c) = 0
       THEN "No comments found - consider adding inline documentation."
       ELSE IF 10 * CommentLines(c) < line_count
       THEN "Minimal comments present - more documentation would improve readability."
       ELSE "Good use of comments for code documentation.",
       IF ContentContains(c, INDENT) THEN "Proper indentation and whitespace usage."
       ELSE "Consider improving code formatting and indentation." >>

get_modularity_feedback(c, line_count) ==
    LET function_count == CountSub(c, "def ") + CountSub(c, "function ") + CountSub(c, "public ")
    IN  IF function_count = 0
        THEN "No functions detected. Consider breaking code into reusable functions for better modularity."
        ELSE IF line_count > 30 * Max(function_count, 1)
        THEN "Functions are quite long. Consider splitting large functions into smaller, more focused ones."
        ELSE "Good modular structure with appropriately sized functions."

OfSeverity(issues, sev) == SelectSeq(issues, LAMBDA x : x.severity = sev)

\* [f(x) for x in s[:2]]
FirstTwoLines(s) == [k \in 1..Min(2, Len(s)) |-> <<"- Line", s[k].line_number, s[k].description>>]

get_bugs_feedback(c, issues) ==
    LET critical_issues == OfSeverity(issues, CRITICAL)
        high_issues == OfSeverity(issues, HIGH)
        medium_issues == OfSeverity(issues, MEDIUM)
        feedback_parts ==
            (IF critical_issues # <<>>
             THEN <<<<"CRITICAL: Found critical issues", Len(critical_issues)>>>>
                  \o FirstTwoLines(critical_issues)
             ELSE <<>>)
            \o (IF high_issues # <<>>
                THEN <<<<"HIGH PRIORITY: high-priority issues", Len(high_issues)>>>>
                     \o FirstTwoLines(high_issues)
                ELSE <<>>)
            \o (IF medium_issues # <<>>
                THEN <<<<"MEDIUM PRIORITY: medium-priority issues", Len(medium_issues)>>>>
                ELSE <<>>)
            \o (IF ContentContains(c, "/") /\ ContentContains(c, "n")
                THEN <<<<"Potential division by zero detected - add validation.">>>> ELSE <<>>)
            \o (IF ContentContains(c, "input(") /\ ContentContains(c, "int(")
                THEN <<<<"Missing input validation - add try-catch blocks.">>>> ELSE <<>>)
            \o (IF ContentContains(c, "range(") /\ ContentContains(c, "[")
                THEN <<<<"Potential array bounds issues - verify index ranges.">>>> ELSE <<>>)
    IN  IF feedback_parts = <<>>
        THEN <<<<"No obvious bugs detected, but consider adding comprehensive input validation and error handling.">>>>
        ELSE feedback_parts

SuggestionCap == 6

get_suggestions(c, line_count, lang) ==
    LET suggestions ==
            (IF line_count > 100
             THEN <<"Consider breaking this file into smaller, focused modules for better maintainability">>
             ELSE <<>>)
            \o (IF ~ContentContains(c, "TODO") /\ ~ContentContains(c, "FIXME")
                THEN <<"Add TODO comments for future improvements and known limitations">>
                ELSE <<>>)
            \o (IF lang = "Python" /\ ContentContains(c, "import")
                THEN <<"Organize imports according to PEP 8: standard library, third-party, local imports">>
                ELSE <<>>)
            \o (IF lang = "Python" /\ ContentContains(c, "def ") /\ ~ContentContains(c, "type:")
                THEN <<"Add type hints to function parameters and return values for better code documentation">>
                ELSE <<>>)
            \o (IF lang = "Python" /\ ContentContains(c, "global ")
                THEN <<"Refactor to avoid global variables - use dependency injection or return values instead">>
                ELSE <<>>)
            \o (IF ContentContains(c, "input(") /\ ~ContentContains(c, "try:")
                THEN <<"Add comprehensive input validation with try-catch blocks to handle invalid user input">>
                ELSE <<>>)
            \o (IF ContentContains(c, "/") /\ ~ContentContains(c, "if")
                THEN <<"Add validation to prevent division by zero and other mathematical errors">>
                ELSE <<>>)
            \o (IF ContentContains(c, "print(") \/ ContentContains(c, "console.log")
                THEN <<"Replace print statements with proper logging framework for production code">>
                ELSE <<>>)
            \o <<"Add comprehensive unit tests to cover edge cases and error conditions",
                 "Implement proper error handling and graceful failure modes">>
            \o (IF ContentContains(c, "for ") /\ ContentContains(c, "range(")
                THEN <<"Consider using list comprehensions or generator expressions for better performance">>
                ELSE <<>>)
    IN  Slice(suggestions, 0, SuggestionCap)

\* LLMReviewService._generate_summary; score is in halves
engine_generate_summary(score, issue_count, lang, critical_issues, high_issues) ==
    LET rest == issue_count - critical_issues - high_issues
        issue_breakdown ==
            (IF critical_issues > 0 THEN <<<<critical_issues, "critical">>>> ELSE <<>>)
            \o (IF high_issues > 0 THEN <<<<high_issues, "high-priority">>>> ELSE <<>>)
            \o (IF rest > 0 THEN <<<<rest, "medium/low">>>> ELSE <<>>)
    IN  << <<IF score >= 16 THEN "Excellent code with high quality standards."
             ELSE IF score >= 12 THEN "Good code with room for improvement."
             ELSE IF score >= 8 THEN "Fair code that needs attention to several issues."
             ELSE "Poor code requiring significant refactoring.", lang>>,
           IF issue_count = 0 THEN <<"No issues detected.">>
           ELSE <<"Found total issues:", issue_count, issue_breakdown>>,
           IF critical_issues > 0
           THEN <<"URGENT: Address critical issues immediately to prevent runtime errors.">>
           ELSE IF high_issues > 0
           THEN <<"PRIORITY: Focus on high-priority issues for better code reliability.">>
           ELSE IF issue_count > 0
           THEN <<"Consider addressing medium-priority issues for improved code quality.">>
           ELSE <<"Code is in good shape - consider adding tests and documentation.">> >>

(***************************************************************************)
(* CodeReview and LLMReviewService._generate_mock_review.                  *)
(***************************************************************************)
CodeReview(readability, modularity, potential_bugs, suggestions, issues, overall_score, summary) ==
    [readability |-> readability, modularity |-> modularity,
     potential_bugs |-> potential_bugs, suggestions |-> suggestions,
     issues |-> issues, overall_score |-> overall_score, summary |-> summary]

LongFileLines == 200

\* the local `score` before the CodeReview is built, in halves
MockScore(c, line_count, issues) ==
    16 - 6 * CountSeverity(issues, CRITICAL)
       - 4 * CountSeverity(issues, HIGH)
       - 2 * CountSeverity(issues, MEDIUM)
       - (IF line_count > LongFileLines THEN 2 ELSE 0)
       - (IF ContentContains(c, "global ") THEN 2 ELSE 0)
       - (IF ContentContains(c, "print(") THEN 1 ELSE 0)

\* faulty variant: the score is not clamped
MockOverallScore_NoClamp(score) == IntOfHalves(score)

\* faulty variant: the score is rounded, not truncated
MockOverallScore_Rounds(score) == Max(1, Min(10, RoundOfHalves(score)))

\* max(1, min(10, int(score)))
MockOverallScore(score) == Max(1, Min(10, IntOfHalves(score)))

generate_mock_review(c, line_count, lang, issues) ==
    LET score == MockScore(c, line_count, issues)
    IN  CodeReview(get_readability_feedback(c, line_count),
                   get_modularity_feedback(c, line_count),
                   get_bugs_feedback(c, issues),
                   get_suggestions(c, line_count, lang),
                   issues,
                   MockOverallScore(score),
                   engine_generate_summary(score, Len(issues), lang,
                                           CountSeverity(issues, CRITICAL),
                                           CountSeverity(issues, HIGH)))



\* the indices at which _generate_mock_issues subscripts `lines`
MockIndexReads(c) ==
    {NextLineIndex(c, strip(LineAt(c, i)), i) :
        i \in {j \in 1..LineCount(c) : strip(LineAt(c, j)) # <<>>}} \ {-1}

\* LLMReviewService._analyze_with_mock (the sleep changes no value): the
\* CodeReview returned, or the IndexError of a subscript out of range
analyze_with_mock(c, name, lang) ==
    IF \E idx \in MockIndexReads(c) : idx >= LineCount(c)
    THEN Raised("IndexError")
    ELSE Returned(generate_mock_review(c, LineCount(c), lang, generate_mock_issues(c)))

(***************************************************************************)
(* ReportFormatter.                                                        *)
(***************************************************************************)
\* self.severity_weights.get(severity, 1)
severity_weights(sev) ==
    CASE sev = CRITICAL -> 4
      [] sev = HIGH -> 3
      [] sev = MEDIUM -> 2
      [] sev = LOW -> 1
      [] OTHER -> 1

\* the sum of the weights of issues[k..]: each issue takes weight * 0.5 off
\* the score, which is its weight in halves
RECURSIVE WeightSum(_, _)
WeightSum(issues, k) ==
    IF k > Len(issues) THEN 0
    ELSE severity_weights(issues[k].severity) + WeightSum(issues, k + 1)

\* base_score when the deductions are made, in halves
FormatterBaseScore(rv) ==
    20 - WeightSum(rv.issues, 1)
       - (IF Len(rv.suggestions) > 5 THEN 2
          ELSE IF Len(rv.suggestions) > 3 THEN 1 ELSE 0)

\* faulty variant: the score is capped at 10 but has no floor
calculate_overall_score_NoFloor(rv) == Min(10, RoundOfHalves(FormatterBaseScore(rv)))

\* ReportFormatter._calculate_overall_score
calculate_overall_score(rv) == Max(1, Min(10, RoundOfHalves(FormatterBaseScore(rv))))

\* faulty variant: the minor issues are the low ones, the medium ones left out
formatter_generate_summary_MinorIsLow(rv, overall_score) ==
    LET total_issues == Len(rv.issues)
        critical_issues == CountSeverity(rv.issues, CRITICAL)
        high_issues == CountSeverity(rv.issues, HIGH)
        rest == CountSeverity(rv.issues, LOW)
        quality_level ==
            IF overall_score >= 8 THEN "excellent"
            ELSE IF overall_score >= 6 THEN "good"
            ELSE IF overall_score >= 4 THEN "fair"
            ELSE "needs improvement"
        issue_desc ==
            (IF critical_issues > 0 THEN <<<<critical_issues, "critical">>>> ELSE <<>>)
            \o (IF high_issues > 0 THEN <<<<high_issues, "high">>>> ELSE <<>>)
            \o (IF rest > 0 THEN <<<<rest, "minor">>>> ELSE <<>>)
    IN  <<<<"Code quality is", quality_level, "with an overall score of", overall_score>>>>
        \o (IF total_issues = 0 THEN <<<<"No issues were identified.">>>>
            ELSE <<<<"Found issues:", total_issues, issue_desc>>>>)
        \o (IF rv.suggestions # <<>>
            THEN <<<<"Provided improvement suggestions.", Len(rv.suggestions)>>>>
            ELSE <<>>)

\* ReportFormatter._generate_summary
formatter_generate_summary(rv, overall_score) ==
    LET total_issues == Len(rv.issues)
        critical_issues == CountSeverity(rv.issues, CRITICAL)
        high_issues == CountSeverity(rv.issues, HIGH)
        rest == total_issues - critical_issues - high_issues
        quality_level ==
            IF overall_score >= 8 THEN "excellent"
            ELSE IF overall_score >= 6 THEN "good"
            ELSE IF overall_score >= 4 THEN "fair"
            ELSE "needs improvement"
        issue_desc ==
            (IF critical_issues > 0 THEN <<<<critical_issues, "critical">>>> ELSE <<>>)
            \o (IF high_issues > 0 THEN <<<<high_issues, "high">>>> ELSE <<>>)
            \o (IF rest > 0 THEN <<<<rest, "minor">>>> ELSE <<>>)
    IN  <<<<"Code quality is", quality_level, "with an overall score of", overall_score>>>>
        \o (IF total_issues = 0 THEN <<<<"No issues were identified.">>>>
            ELSE <<<<"Found issues:", total_issues, issue_desc>>>>)
        \o (IF rv.suggestions # <<>>
            THEN <<<<"Provided improvement suggestions.", Len(rv.suggestions)>>>>
            ELSE <<>>)

issue_dict(issue) ==
    [line_number |-> issue.line_number, type |-> issue.issue_type,
     description |-> issue.description, suggestion |-> issue.suggestion]

\* the loop of _group_issues_by_severity from issue k on, grouped being the
\* mapping built so far
RECURSIVE GroupFrom(_, _, _)
GroupFrom(issues, k, grouped) ==
    IF k > Len(issues) THEN grouped
    ELSE GroupFrom(issues, k + 1,
                   [grouped EXCEPT ![issues[k].severity] = Append(@, issue_dict(issues[k]))])

\* faulty variant: each issue is put at the front of its bucket
group_issues_by_severity_Prepends(issues) ==
    GroupFrom([k \in 1..Len(issues) |-> issues[Len(issues) + 1 - k]], 1,
              [critical |-> <<>>, high |-> <<>>, medium |-> <<>>, low |-> <<>>])

\* faulty variant: the low issues are left out of the grouping
group_issues_by_severity_SkipsLow(issues) ==
    GroupFrom(SelectSeq(issues, LAMBDA x : x.severity # LOW), 1,
              [critical |-> <<>>, high |-> <<>>, medium |-> <<>>, low |-> <<>>])

\* ReportFormatter._group_issues_by_severity
group_issues_by_severity(issues) ==
    GroupFrom(issues, 1, [critical |-> <<>>, high |-> <<>>, medium |-> <<>>, low |-> <<>>])

\* the loop of _count_issues_by_type: type_counts is the mapping built so
\* far, as the sequence of its (key, count) pairs in insertion order
RECURSIVE CountTypesFrom(_, _, _)
CountTypesFrom(issues, k, type_counts) ==
    IF k > Len(issues) THEN type_counts
    ELSE LET t == issues[k].issue_type
             at == {j \in 1..Len(type_counts) : type_counts[j][1] = t}
         IN  CountTypesFrom(issues, k + 1,
                 IF at = {} THEN Append(type_counts, <<t, 1>>)
                 ELSE [j \in 1..Len(type_counts) |->
                          IF j \in at THEN <<t, type_counts[j][2] + 1>> ELSE type_counts[j]])

\* ReportFormatter._count_issues_by_type
count_issues_by_type(issues) == CountTypesFrom(issues, 1, <<>>)

\* round(n / d * 10^k) for integers n >= 0, d > 0: the quotient n * 10^k / d
\* to the nearest integer, an exact half to the even neighbour
RoundQuotient(n, d) ==
    LET q == n \div d
        r == n % d
    IN  IF 2 * r < d THEN q
        ELSE IF 2 * r > d THEN q + 1
        ELSE IF q % 2 = 0 THEN q ELSE q + 1

\* a faulty variant: the scores are capped at 10 but have no floor
calculate_quality_metrics_NoFloor(rv) ==
    LET total_issues == Len(rv.issues)
        suggestions_count == Len(rv.suggestions)
    IN  [complexity_score |-> Min(100, 100 - 5 * total_issues - 2 * suggestions_count),
         maintainability_score |-> Min(100, 100 - 3 * total_issues - suggestions_count),
         suggestions_count |-> suggestions_count,
         issues_per_suggestion |-> RoundQuotient(100 * total_issues, Max(1, suggestions_count))]

\* a faulty variant: issues_per_suggestion by floor division
calculate_quality_metrics_FloorDivision(rv) ==
    LET total_issues == Len(rv.issues)
        suggestions_count == Len(rv.suggestions)
    IN  [complexity_score |-> Min(100, Max(10, 100 - 5 * total_issues - 2 * suggestions_count)),
         maintainability_score |-> Min(100, Max(10, 100 - 3 * total_issues - suggestions_count)),
         suggestions_count |-> suggestions_count,
         issues_per_suggestion |-> 100 * (total_issues \div Max(1, suggestions_count))]

\* ReportFormatter._calculate_quality_metrics: the two scores in tenths,
\* issues_per_suggestion in hundredths
\* (round(x, 2) of the float quotient; the quotients that lie halfway
\* between two hundredths are multiples of 1/8, exact as floats, for every
\* suggestions_count below 40)
calculate_quality_metrics(rv) ==
    LET total_issues == Len(rv.issues)
        suggestions_count == Len(rv.suggestions)
    IN  [complexity_score |-> Min(100, Max(10, 100 - 5 * total_issues - 2 * suggestions_count)),
         maintainability_score |-> Min(100, Max(10, 100 - 3 * total_issues - suggestions_count)),
         suggestions_count |-> suggestions_count,
         issues_per_suggestion |-> RoundQuotient(100 * total_issues, Max(1, suggestions_count))]

\* faulty variant: the review's own overall_score is passed on
format_review_KeepsReviewScore(rv, name) ==
    [filename |-> name,
     overall_score |-> rv.overall_score,
     summary |-> formatter_generate_summary(rv, rv.overall_score),
     readability |-> rv.readability,
     modularity |-> rv.modularity,
     potential_bugs |-> rv.potential_bugs,
     suggestions |-> rv.suggestions,
     issues_by_severity |-> group_issues_by_severity(rv.issues),
     issues_by_type |-> count_issues_by_type(rv.issues),
     quality_metrics |-> calculate_quality_metrics(rv),
     total_issues |-> Len(rv.issues),
     critical_issues |-> CountSeverity(rv.issues, CRITICAL),
     high_issues |-> CountSeverity(rv.issues, HIGH),
     medium_issues |-> CountSeverity(rv.issues, MEDIUM),
     low_issues |-> CountSeverity(rv.issues, LOW)]

\* ReportFormatter.format_review
format_review(rv, name) ==
    LET overall_score == calculate_overall_score(rv)
    IN  [filename |-> name,
         overall_score |-> overall_score,
         summary |-> formatter_generate_summary(rv, overall_score),
         readability |-> rv.readability,
         modularity |-> rv.modularity,
         potential_bugs |-> rv.potential_bugs,
         suggestions |-> rv.suggestions,
         issues_by_severity |-> group_issues_by_severity(rv.issues),
         issues_by_type |-> count_issues_by_type(rv.issues),
         quality_metrics |-> calculate_quality_metrics(rv),
         total_issues |-> Len(rv.issues),
         critical_issues |-> CountSeverity(rv.issues, CRITICAL),
         high_issues |-> CountSeverity(rv.issues, HIGH),
         medium_issues |-> CountSeverity(rv.issues, MEDIUM),
         low_issues |-> CountSeverity(rv.issues, LOW)]


(***************************************************************************)
(* JSON values of a remote answer. A value is [t |-> its kind, ...]:       *)
(*   "absent" (no such key), "null", "num" (h: the number in halves),      *)
(*   "str" (s: its characters), "intstr" (n: the integer its digits       *)
(*   spell), "list" (items), "dict".                                       *)
(* LLMReviewService._parse_llm_response.                                   *)
(***************************************************************************)
\* ReviewSeverity(text): the member whose value is text, ValueError otherwise
SeverityOf(text) ==
    CASE text = <<"l", "o", "w">> -> Returned(LOW)
      [] text = <<"m", "e", "d", "i", "u", "m">> -> Returned(MEDIUM)
      [] text = <<"h", "i", "g", "h">> -> Returned(HIGH)
      [] text = <<"c", "r", "i", "t", "i", "c", "a", "l">> -> Returned(CRITICAL)
      [] OTHER -> Raised("ValueError")

\* faulty variant: the severity is looked up as spelt, without lower()
ParseSeverity_NoLower(issue_data) ==
    IF issue_data.t # "dict" THEN Raised("AttributeError")
    ELSE CASE issue_data.severity.t = "absent" -> SeverityOf(<<"m", "e", "d", "i", "u", "m">>)
           [] issue_data.severity.t = "str" -> SeverityOf(issue_data.severity.s)
           [] OTHER -> Raised("AttributeError")

\* ReviewSeverity(issue_data.get("severity", "medium").lower())
ParseSeverity(issue_data) ==
    IF issue_data.t # "dict" THEN Raised("AttributeError")
    ELSE CASE issue_data.severity.t = "absent" -> SeverityOf(lower(<<"m", "e", "d", "i", "u", "m">>))
           [] issue_data.severity.t = "str" -> SeverityOf(lower(issue_data.severity.s))
           [] OTHER -> Raised("AttributeError")

\* the body of the try block of the loop: the CodeIssue built from one entry
ParseIssue(issue_data) ==
    LET severity == ParseSeverity(issue_data)
    IN  IF severity.raised THEN severity
        ELSE IF issue_data.line.t \notin {"absent", "null", "num"} THEN Raised("ValidationError")
        ELSE Returned(CodeIssue(IF issue_data.line.t = "num" THEN issue_data.line.h \div 2 ELSE None,
                                issue_data.type, severity.value,
                                issue_data.issue, issue_data.fix_suggestion))

\* the loop over line_wise_issues from entry k on: the list built, or the
\* exception that leaves the loop (except (ValueError, TypeError): continue)
RECURSIVE ParseIssuesFrom(_, _, _)
ParseIssuesFrom(entries, k, issues) ==
    IF k > Len(entries) THEN Returned(issues)
    ELSE LET one == ParseIssue(entries[k])
         IN  IF ~one.raised THEN ParseIssuesFrom(entries, k + 1, Append(issues, one.value))
             ELSE IF IsInstance(one.exc, "ValueError") \/ IsInstance(one.exc, "TypeError")
             THEN ParseIssuesFrom(entries, k + 1, issues)
             ELSE one

\* int(review_data.get("overall_score", 5))
ParseScore(raw) ==
    CASE raw.t = "absent" -> Returned(5)
      [] raw.t = "num" -> Returned(IntOfHalves(raw.h))
      [] raw.t = "intstr" -> Returned(raw.n)
      [] raw.t = "str" -> Raised("ValueError")
      [] OTHER -> Raised("TypeError")

\* min(10, max(1, n))
RemoteOverallScore(n) == Min(10, Max(1, n))

parse_llm_response(review_data, lang) ==
    IF review_data.t # "dict" THEN Raised("AttributeError")
    ELSE IF review_data.line_wise_issues.t \notin {"absent", "list"} THEN Raised("TypeError")
    ELSE LET entries == IF review_data.line_wise_issues.t = "absent" THEN <<>>
                        ELSE review_data.line_wise_issues.items
             issues == ParseIssuesFrom(entries, 1, <<>>)
             score == ParseScore(review_data.overall_score)
         IN  IF issues.raised THEN issues
             ELSE IF score.raised THEN score
             ELSE IF review_data.suggestions.t \notin {"absent", "list"}
             THEN Raised("ValidationError")
             ELSE Returned(CodeReview(
                      <<"No readability assessment provided">>,
                      "No modularity assessment provided",
                      <<<<"No bug analysis provided">>>>,
                      IF review_data.suggestions.t = "absent" THEN <<>>
                      ELSE review_data.suggestions.items,
                      issues.value,
                      RemoteOverallScore(score.value),
                      <<<<"Code review completed for file", lang>>>>))

(***************************************************************************)
(* LLMReviewService._analyze_with_gemini. The answer of the remote model   *)
(* is resp: call = "raises" when generate_content or response.text raise;  *)
(* otherwise the text is, by resp.form,                                    *)
(*   "json":           JSON as a whole, json.loads gives resp.data;        *)
(*   "embedded":       no JSON as a whole, the regex finds a {...} that    *)
(*                     json.loads turns into resp.data;                    *)
(*   "braces_invalid": the regex finds a {...} that is no JSON;            *)
(*   "no_braces":      the regex finds nothing.                            *)
(***************************************************************************)
analyze_with_gemini(c, name, lang, resp) ==
    IF resp.call = "raises" THEN Raised("ApiError")
    ELSE CASE resp.form = "json" -> parse_llm_response(resp.data, lang)
           [] resp.form = "embedded" -> parse_llm_response(resp.data, lang)
           [] resp.form = "braces_invalid" -> Raised("JSONDecodeError")
           [] OTHER -> Raised("ValueError")

\* faulty variant: only ValueError is caught
analyze_code_CatchesValueError(c, name, real, resp) ==
    LET detected == detect_language(name)
        lang == detected.value
    IN  IF detected.raised THEN detected
        ELSE IF real
        THEN LET remote == analyze_with_gemini(c, name, lang, resp)
             IN  IF remote.raised /\ IsInstance(remote.exc, "ValueError")
                 THEN analyze_with_mock(c, name, lang)
                 ELSE remote
        ELSE analyze_with_mock(c, name, lang)

\* LLMReviewService.analyze_code
analyze_code(c, name, real, resp) ==
    LET detected == detect_language(name)
        lang == detected.value
    IN  IF detected.raised THEN detected
        ELSE IF real
        THEN LET remote == analyze_with_gemini(c, name, lang, resp)
             IN  IF remote.raised /\ IsInstance(remote.exc, "Exception")
                 THEN analyze_with_mock(c, name, lang)
                 ELSE remote
        ELSE analyze_with_mock(c, name, lang)


(***************************************************************************)
(* The inputs the calls are made with.                                     *)
(***************************************************************************)
\* every filename of at most MaxNameLen characters
Filenames == SeqsUpTo(NameChars, MaxNameLen)

\* "c.py" and "c.c"
ReviewedFilenames == {<<"c", ".", "p", "y">>, <<"c", ".", "c">>}

\* the lines a content is made of
LineSamples ==
    { <<>>,
      <<INDENT>>,
      <<INDENT, "def ", "x">>,
      <<DOC>>,
      <<"print(", "x">>,
      <<"global ", "x">>,
      <<"x", "global ">>,
      <<"tmp", "=", "n", "/", "n">>,
      <<"range(", "[">>,
      <<"input(", "int(">>,
      <<"http://">>,
      <<X100>>,
      <<X100, "x">>,
      <<"def ", X100, "=", "/", "range(", "[", "input(", "int(", "http://">>,
      <<"#", "TODO">> }

\* content.split('\n') is never empty: at least one leading line. The
\* contents are every sequence of 1..MaxLines sample lines, alone or with one
\* further line "x", and every sample line followed by as many lines "x" as
\* make the file one line short of, or one line into, a long file
Contents ==
    {[lines |-> l, pad |-> p] : l \in SeqsUpTo(LineSamples, MaxLines) \ {<<>>}, p \in {0, 1}}
    \cup {[lines |-> <<l>>, pad |-> p] : l \in LineSamples, p \in {LongFileLines - 1, LongFileLines}}

NoResponse == [call |-> "none"]

Absent == [t |-> "absent"]

Null == [t |-> "null"]

Num(h) == [t |-> "num", h |-> h]

Str(s) == [t |-> "str", s |-> s]

List(items) == [t |-> "list", items |-> items]

IssueData(severity, line) ==
    [t |-> "dict", severity |-> severity, line |-> line, type |-> "bug",
     issue |-> <<"remote issue">>, fix_suggestion |-> "remote fix"]

\* the entries of line_wise_issues
IssueDataSamples ==
    { IssueData(Str(<<"c", "r", "i", "t", "i", "c", "a", "l">>), Num(2)),
      IssueData(Str(<<"H", "I", "G", "H">>), Num(4)),
      IssueData(Absent, Absent),
      IssueData(Str(<<"b", "l", "o", "c", "k", "e", "r">>), Num(6)),
      IssueData(Str(<<"L", "o", "w">>), Str(<<"x">>)),
      IssueData(Num(6), Num(8)) }

\* the values of overall_score: -1.5, 7.5, 12, "8", "good", null, no key
ScoreSamples ==
    {Absent, Null, Num(-3), Num(15), Num(24), [t |-> "intstr", n |-> 8], Str(<<"g", "o", "o", "d">>)}

SuggestionTexts(n) == [k \in 1..n |-> "suggestion"]

ReviewDataSamples ==
    {[t |-> "dict", line_wise_issues |-> i, overall_score |-> s, suggestions |-> g] :
        i \in {Absent, Null} \cup {List(v) : v \in SeqsUpTo(IssueDataSamples, MaxRemoteIssues)},
        s \in ScoreSamples,
        g \in {Absent, Null, List(SuggestionTexts(4))}}

Responses ==
    {[call |-> "raises"],
     [call |-> "ok", form |-> "no_braces"],
     [call |-> "ok", form |-> "braces_invalid"],
     [call |-> "ok", form |-> "json", data |-> [t |-> "list"]]}
    \cup {[call |-> "ok", form |-> f, data |-> d] :
            f \in {"json", "embedded"}, d \in ReviewDataSamples}

\* "x = n / n" and "def x" / "print(x"
RemoteContents ==
    {[lines |-> <<<<"tmp", "=", "n", "/", "n">>>>, pad |-> 0],
     [lines |-> <<<<INDENT, "def ", "x">>, <<"print(", "x">>>>, pad |-> 0]}

IssueTypeOf(sev) ==
    CASE sev = CRITICAL -> "bug"
      [] sev = HIGH -> "security"
      [] sev = MEDIUM -> "performance"
      [] OTHER -> "style"

\* the CodeReviews handed to the formatter: every list of at most MaxIssues
\* severities, with every number of suggestions up to MaxSuggestions
FormatterReviews ==
    {CodeReview(<<"readability">>, "modularity", <<<<"potential bugs">>>>,
                SuggestionTexts(n),
                [k \in 1..Len(sevs) |->
                    CodeIssue(k, IssueTypeOf(sevs[k]), sevs[k], <<"issue", k>>, "fix")],
                5, <<<<"summary">>>>) :
        sevs \in SeqsUpTo(ReviewSeverity, MaxIssues), n \in 0..MaxSuggestions}

\* no request is served and no service call is in flight
NoRequest == [route |-> "none"]

NoReply == [status |-> 0]

RoutesIdle ==
    /\ table = {}
    /\ clock = 0
    /\ request = NoRequest
    /\ reply = NoReply
    /\ handled = <<>>
    /\ live = {}
    /\ sessions = 0
    /\ reports = <<>>
    /\ links = {}

TasksIdle ==
    /\ tasks = <<>>
    /\ rng = 0

(***************************************************************************)
(* The state machine: the calls made on the two services.                  *)
(*   pc = "start":    the arguments are chosen, no call is made yet        *)
(*   pc = "detected": detect_language has returned                         *)
(*   pc = "analyzed": analyze_code has returned or raised (review)         *)
(*   pc = "formatted": format_review has returned (report)                 *)
(***************************************************************************)
InitLang ==
    /\ filename \in Filenames
    /\ content = [lines |-> <<<<>>>>, pad |-> 0]
    /\ use_real_llm = FALSE
    /\ response = NoResponse
    /\ pc = "start"
    /\ language = None
    /\ review = None
    /\ report = None
    /\ RoutesIdle
    /\ TasksIdle

InitEngine ==
    /\ filename \in ReviewedFilenames
    /\ content \in Contents
    /\ use_real_llm = FALSE
    /\ response = NoResponse
    /\ pc = "start"
    /\ language = None
    /\ review = None
    /\ report = None
    /\ RoutesIdle
    /\ TasksIdle

InitRemote ==
    /\ filename = <<"c", ".", "p", "y">>
    /\ content \in RemoteContents
    /\ use_real_llm = TRUE
    /\ response \in Responses
    /\ pc = "start"
    /\ language = None
    /\ review = None
    /\ report = None
    /\ RoutesIdle
    /\ TasksIdle

InitFormatter ==
    /\ filename = <<"c", ".", "p", "y">>
    /\ content = [lines |-> <<<<>>>>, pad |-> 0]
    /\ use_real_llm = TRUE
    /\ response = NoResponse
    /\ pc = "analyzed"
    /\ language = None
    /\ review \in {Returned(r) : r \in FormatterReviews}
    /\ report = None
    /\ RoutesIdle
    /\ TasksIdle

Init == InitEngine \/ InitRemote \/ InitFormatter

\* llm_review_service.detect_language(filename)
DetectLanguage ==
    /\ pc = "start"
    /\ language' = detect_language(filename)
    /\ pc' = "detected"
    /\ UNCHANGED <<filename, content, use_real_llm, response, review, report>>
    /\ UNCHANGED <<routeVars, taskVars>>

\* llm_review_service.analyze_code(content, filename)
AnalyzeCode ==
    /\ pc = "start"
    /\ review' = analyze_code(content, filename, use_real_llm, response)
    /\ pc' = "analyzed"
    /\ UNCHANGED <<filename, content, use_real_llm, response, language, report>>
    /\ UNCHANGED <<routeVars, taskVars>>

\* report_formatter.format_review(review, filename)
FormatReview ==
    /\ pc = "analyzed"
    /\ ~review.raised
    /\ report' = format_review(review.value, filename)
    /\ pc' = "formatted"
    /\ UNCHANGED <<filename, content, use_real_llm, response, language, review>>
    /\ UNCHANGED <<routeVars, taskVars>>

Next == AnalyzeCode \/ FormatReview

\* the review calls, on every input
Spec == Init /\ [][Next]_vars

\* detect_language on every filename
SpecLang == InitLang /\ [][DetectLanguage]_vars

\* the heuristic engine and the formatter on every content
SpecEngine == InitEngine /\ [][Next]_vars

\* the remote path and the formatter on every answer
SpecRemote == InitRemote /\ [][Next]_vars

\* the formatter on every CodeReview
SpecFormatter == InitFormatter /\ [][FormatReview]_vars


(***************************************************************************)
(* Properties.                                                             *)
(***************************************************************************)
\* analyze_code has returned a CodeReview
Reviewed == pc \in {"analyzed", "formatted"} /\ ~review.raised

\* the review in hand is the heuristic engine's
ByEngine == Reviewed /\ response.call = "none" /\ ~use_real_llm

\* the review in hand was built by _parse_llm_response from the remote answer
ByParser ==
    /\ Reviewed
    /\ use_real_llm
    /\ response.call = "ok"
    /\ response.form \in {"json", "embedded"}
    /\ ~parse_llm_response(response.data, detect_language(filename).value).raised

Clamp(n, lo, hi) == IF n < lo THEN lo ELSE IF n > hi THEN hi ELSE n

\* n is the integer nearest to h/2, an exact half going to the even integer
IsNearestEven(n, h) ==
    /\ 2 * n - h \in {-1, 0, 1}
    /\ 2 * n # h => n % 2 = 0

\* n is the integer nearest to h/2, an exact half going up
IsNearestUp(n, h) == 2 * n - h \in {0, 1}

\* n is h/2 with its fractional part dropped
IsTruncation(n, h) ==
    IF h >= 0 THEN 2 * n <= h /\ h < 2 * n + 2
    ELSE 2 * n - 2 < h /\ h <= 2 * n

\* the integers a score can round to
ScoreRange == -60..20

\* the number of issues of the review in hand with severity sev
NumOf(sev) == Cardinality({k \in DOMAIN review.value.issues : review.value.issues[k].severity = sev})

----
\* C1: every overall_score produced, by the heuristic engine, by the parser of
\* the remote answer and by the formatter, is an integer from 1 to 10.
C1_ScoresInRange ==
    /\ Reviewed => review.value.overall_score \in 1..10
    /\ pc = "formatted" => report.overall_score \in 1..10

\* the parser clamped a remote score of 12 to 10 and the formatter, on five
\* or more issue weights, clamped its own
C1_Witness ==
    /\ pc = "formatted"
    /\ ByParser
    /\ response.data.overall_score = Num(24)
    /\ review.value.overall_score = 10
    /\ report.overall_score \in 1..10

----
\* C2: the formatter's overall_score is clamp(round(10 - sum of weight * 0.5
\* over the issues - P), 1, 10), weights low 1, medium 2, high 3, critical 4,
\* P = 1 above 5 suggestions, 0.5 for 4 or 5, else 0, round to the nearest
\* integer with exact halves to the even one.
C2_FormatterScore ==
    pc = "formatted" =>
        LET n == Len(review.value.suggestions)
            \* 10 - sum - P, in halves
            h == 20 - (NumOf(LOW) + 2 * NumOf(MEDIUM) + 3 * NumOf(HIGH) + 4 * NumOf(CRITICAL))
                    - (IF n > 5 THEN 2 ELSE IF n \in {4, 5} THEN 1 ELSE 0)
        IN  \E r \in ScoreRange :
                IsNearestEven(r, h) /\ report.overall_score = Clamp(r, 1, 10)

\* one high issue and no suggestion: 8.5 rounds to the even 8
C2_Witness ==
    /\ pc = "formatted"
    /\ Len(review.value.issues) = 1
    /\ review.value.issues[1].severity = HIGH
    /\ review.value.suggestions = <<>>
    /\ report.overall_score = 8

----
\* the value the engine's score is taken from, in halves: 8 - 3 per critical,
\* 2 per high, 1 per medium issue of the returned list, - 1 above 200 lines,
\* - 1 with 'global ' in the content, - 0.5 with 'print(' in it
C3_Value ==
    16 - 6 * NumOf(CRITICAL) - 4 * NumOf(HIGH) - 2 * NumOf(MEDIUM)
       - (IF LineCount(content) > 200 THEN 2 ELSE 0)
       - (IF ContentContains(content, "global ") THEN 2 ELSE 0)
       - (IF ContentContains(content, "print(") THEN 1 ELSE 0)

\* C3 as stated: the engine's overall_score is the clamp to [1,10] of the
\* nearest-integer rounding of that value (an exact half going to the even
\* integer or up).
C3_Original ==
    ByEngine =>
        \E r \in ScoreRange :
            /\ IsNearestEven(r, C3_Value) \/ IsNearestUp(r, C3_Value)
            /\ review.value.overall_score = Clamp(r, 1, 10)

\* C3 as amended: the engine's overall_score is the clamp to [1,10] of that
\* value with its fractional part dropped (truncation toward zero).
C3_EngineScoreTruncates ==
    ByEngine =>
        \E r \in ScoreRange :
            IsTruncation(r, C3_Value) /\ review.value.overall_score = Clamp(r, 1, 10)

\* a content with 'print(' and no critical, high or medium issue: 7.5 gives 7
C3_Witness ==
    /\ ByEngine
    /\ ContentContains(content, "print(")
    /\ C3_Value = 15
    /\ review.value.overall_score = 7

----
\* C4: in every formatted report the four per-severity counts add up to
\* total_issues, which is the number of issues of the review, and each count
\* is the length of its bucket of issues_by_severity.
C4_CountsAgree ==
    pc = "formatted" =>
        /\ report.critical_issues + report.high_issues + report.medium_issues
              + report.low_issues = report.total_issues
        /\ report.total_issues = Len(review.value.issues)
        /\ report.critical_issues = Len(report.issues_by_severity.critical)
        /\ report.high_issues = Len(report.issues_by_severity.high)
        /\ report.medium_issues = Len(report.issues_by_severity.medium)
        /\ report.low_issues = Len(report.issues_by_severity.low)

\* a report with issues of all four severities
C4_Witness ==
    /\ pc = "formatted"
    /\ report.critical_issues >= 1
    /\ report.high_issues >= 1
    /\ report.medium_issues >= 1
    /\ report.low_issues >= 2

----
\* the place of an issue's check in the pattern catalogue
CatalogueRank(issue) ==
    LET text == issue.description[1]
    IN  CASE text = "Line is too long" -> 1
          [] text = "Potential division by zero on line" -> 2
          [] text = "Potential array index out of bounds on line" -> 3
          [] text = "Missing input validation on line" -> 4
          [] text = "Use of global variables on line" -> 5
          [] text = "Use of print statement on line" -> 6
          [] text = "Function on line lacks documentation" -> 7
          [] text = "Function at line lacks documentation" -> 7
          [] text = "Hardcoded URL found at line" -> 8
          [] OTHER -> 0

\* C5: the engine's issues are in non-decreasing line order, and those of one
\* line in catalogue order: line too long, division by zero, array index,
\* input validation, global variable, print statement, missing documentation,
\* hardcoded URL.
C5_IssueOrder ==
    ByEngine =>
        \A j, k \in DOMAIN review.value.issues :
            j < k =>
                LET a == review.value.issues[j]
                    b == review.value.issues[k]
                IN  /\ CatalogueRank(a) \in 1..8
                    /\ a.line_number <= b.line_number
                    /\ a.line_number = b.line_number => CatalogueRank(a) <= CatalogueRank(b)

\* issues of two lines, the first line with a long-line issue before a URL one
C5_Witness ==
    /\ ByEngine
    /\ \E j, k, m \in DOMAIN review.value.issues :
          /\ j < k /\ k < m
          /\ review.value.issues[j].line_number = 1
          /\ review.value.issues[k].line_number = 1
          /\ CatalogueRank(review.value.issues[j]) = 1
          /\ CatalogueRank(review.value.issues[k]) = 8
          /\ review.value.issues[m].line_number = 2

----
\* C6: the engine's issue list is the first 10 of the issues detected (all of
\* them when fewer), and the engine's score and the counts of its feedback
\* are those of this list.
C6_CappedIssues ==
    ByEngine =>
        LET all == DetectedIssues(content)
            kept == review.value.issues
        IN  /\ Len(kept) = (IF Len(all) < 10 THEN Len(all) ELSE 10)
            /\ \A k \in 1..Len(kept) : kept[k] = all[k]
            /\ \E r \in ScoreRange :
                  IsTruncation(r, C3_Value) /\ review.value.overall_score = Clamp(r, 1, 10)
            /\ review.value.summary[2][1] = "Found total issues:" =>
                  review.value.summary[2][2] = Len(kept)
            /\ (review.value.summary[2][1] = "Found total issues:") = (Len(kept) > 0)
            /\ \A s \in DOMAIN review.value.potential_bugs :
                  LET part == review.value.potential_bugs[s]
                  IN  /\ part[1] = "CRITICAL: Found critical issues" => part[2] = NumOf(CRITICAL)
                      /\ part[1] = "HIGH PRIORITY: high-priority issues" => part[2] = NumOf(HIGH)
                      /\ part[1] = "MEDIUM PRIORITY: medium-priority issues" => part[2] = NumOf(MEDIUM)

\* more than 10 issues detected, among them a medium one past the tenth
C6_Witness ==
    /\ ByEngine
    /\ Len(DetectedIssues(content)) > 10
    /\ Len(review.value.issues) = 10
    /\ CountSeverity(DetectedIssues(content), MEDIUM) > NumOf(MEDIUM)

----
\* C7: detect_language returns "Unknown" for every filename without a '.'.
C7_NoDotIsUnknown ==
    (pc = "detected" /\ \A k \in DOMAIN filename : filename[k] # ".") =>
        (~language.raised /\ language.value = "Unknown")

----
\* the extensions of the table, without their '.', and their labels
C8_Table ==
    { << <<"p", "y">>, "Python" >>, << <<"j", "s">>, "JavaScript" >>,
      << <<"j", "a", "v", "a">>, "Java" >>, << <<"c", "p", "p">>, "C++" >>,
      << <<"c">>, "C" >>, << <<"t", "s">>, "TypeScript" >>, << <<"g", "o">>, "Go" >>,
      << <<"r", "s">>, "Rust" >>, << <<"p", "h", "p">>, "PHP" >>,
      << <<"r", "b">>, "Ruby" >>, << <<"t", "x", "t">>, "Text" >> }

\* text is ext but for the case of its letters
SameButCase(text, ext) ==
    /\ Len(text) = Len(ext)
    /\ \A k \in DOMAIN text : text[k] = ext[k] \/ LowerChar(text[k]) = ext[k]

\* C8: detect_language raises for no filename; for a filename with a '.', it
\* returns the label of the table when the text after the last '.' is, but
\* for case, one of the 11 extensions, and "Unknown" otherwise.
C8_ExtensionTable ==
    pc = "detected" =>
        /\ ~language.raised
        /\ language.value \in {e[2] : e \in C8_Table} \cup {"Unknown"}
        /\ (\E k \in DOMAIN filename : filename[k] = ".") =>
              LET last == CHOOSE k \in DOMAIN filename :
                              filename[k] = "." /\ \A j \in DOMAIN filename : j > k => filename[j] # "."
                  text == SubSeq(filename, last + 1, Len(filename))
              IN  /\ \A e \in C8_Table : SameButCase(text, e[1]) => language.value = e[2]
                  /\ (~\E e \in C8_Table : SameButCase(text, e[1])) => language.value = "Unknown"

\* a filename with two '.', whose last extension is "Py"
C8_Witness ==
    /\ pc = "detected"
    /\ Cardinality({k \in DOMAIN filename : filename[k] = "."}) = 2
    /\ Len(filename) >= 3
    /\ SubSeq(filename, Len(filename) - 2, Len(filename)) = <<".", "P", "y">>
    /\ language.value = "Python"

----
\* the remote path fails: the call raises, the text holds no JSON object that
\* parses, or building the CodeReview raises
RemoteFails ==
    \/ response.call = "raises"
    \/ response.form \in {"no_braces", "braces_invalid"}
    \/ parse_llm_response(response.data, detect_language(filename).value).raised

\* C9: with the remote path enabled analyze_code raises nothing, and when the
\* remote path fails it returns the heuristic engine's review of the content.
C9_FallsBackToEngine ==
    (use_real_llm /\ response.call # "none" /\ pc \in {"analyzed", "formatted"}) =>
        /\ ~review.raised
        /\ RemoteFails =>
              review.value = analyze_with_mock(content, filename,
                                               detect_language(filename).value).value

\* an entry whose severity is a number makes the parser raise AttributeError
C9_Witness ==
    /\ use_real_llm
    /\ pc = "analyzed"
    /\ response.call = "ok"
    /\ response.form = "json"
    /\ parse_llm_response(response.data, "Python").exc = "AttributeError"
    /\ ~review.raised
    /\ review.value.issues = generate_mock_issues(content)

----
\* C10: the heuristic engine returns a CodeReview and raises nothing, for
\* every content: empty, blank lines only, a 'def ' line first, last or alone.
C10_EngineNeverRaises ==
    (~use_real_llm /\ pc \in {"analyzed", "formatted"}) =>
        /\ ~review.raised
        /\ review.value.overall_score \in Int
        /\ \A k \in DOMAIN review.value.issues :
              review.value.issues[k].severity \in ReviewSeverity

\* the content is one 'def ' line
C10_Witness ==
    /\ ~use_real_llm
    /\ pc = "analyzed"
    /\ content = [lines |-> <<<<INDENT, "def ", "x">>>>, pad |-> 0]
    /\ ~review.raised


----
(***************************************************************************)
(* routes/review.py: the upload routes.                                    *)
(*                                                                         *)
(* An uploaded file is [filename, size, decoded]: size is len() of its     *)
(* bytes and decoded the outcome of bytes.decode('utf-8'). The world of a  *)
(* handler call is env: env.pdf says whether generate_pdf returns ("ok")   *)
(* or raises, env.db which step of the session raises ("add", "commit",    *)
(* "refresh", or "ok" for none), env.elapsed the processing time measured, *)
(* in hundredths of a second.                                              *)
(***************************************************************************)
\* the one element of a set of one
Only(S) == CHOOSE v \in S : TRUE

ALLOWED_EXTENSIONS ==
    { <<".", "p", "y">>, <<".", "j", "s">>, <<".", "j", "a", "v", "a">>,
      <<".", "c", "p", "p">>, <<".", "c">>, <<".", "t", "s">>, <<".", "g", "o">>,
      <<".", "r", "s">>, <<".", "p", "h", "p">>, <<".", "r", "b">>, <<".", "t", "x", "t">> }

\* int(os.getenv("MAX_FILE_SIZE_KB", 200)), the variable not being set
MAX_FILE_SIZE_KB == 200

MAX_FILE_SIZE_BYTES == MAX_FILE_SIZE_KB * 1024

\* validate_file_extension(filename)
validate_file_extension(name) ==
    IF name = <<>> THEN FALSE
    ELSE LET last == LastItem(split(name))
         IN  (<<".">> \o lower(last.value)) \in ALLOWED_EXTENSIONS

\* round(file_size / (1024 * 1024), 2), in hundredths of a megabyte
get_file_size_mb(file_size) == RoundQuotient(100 * file_size, 1024 * 1024)

\* len(content.encode('utf-8')) of a content, whose characters are ASCII:
\* the characters of its lines and the '\n' between them
RECURSIVE LinesLen(_)
LinesLen(ls) == IF ls = <<>> THEN 0 ELSE SumLen(Head(ls)) + LinesLen(Tail(ls))

ByteLen(c) == LinesLen(c.lines) + c.pad + (LineCount(c) - 1)

\* the file whose bytes are the text c
TextFile(name, c) == [filename |-> name, size |-> ByteLen(c), decoded |-> Returned(c)]

\* a file of n bytes that are no UTF-8 text
BinaryFile(name, n) == [filename |-> name, size |-> n, decoded |-> Raised("UnicodeDecodeError")]

\* os.path.splitext(filename)[0] for a filename without '/': the name without
\* its last '.' and what follows, a '.' among the leading ones not counting
splitext_root(name) ==
    LET lead == {k \in 1..Len(name) : \A j \in 1..k : name[j] = "."}
        dots == {k \in 1..Len(name) : name[k] = "." /\ k \notin lead}
    IN  IF dots = {} THEN name
        ELSE SubSeq(name, 1, (CHOOSE k \in dots : \A j \in dots : j <= k) - 1)

\* f"/api/download-pdf/{os.path.basename(pdf_path)}", pdf_path being
\* reports/<root>_review_report.pdf
pdf_link(name) == <<"/api/download-pdf/", splitext_root(name), "_review_report.pdf">>

\* what a call of the handler comes to: an HTTPException raised (status and
\* detail) or the dict returned (body), the collaborators called in order,
\* and the rows of the table after it
NoBody == [none |-> TRUE]

HttpError(code, detail, calls, tbl) ==
    [raised |-> TRUE, status |-> code, detail |-> detail, body |-> NoBody,
     calls |-> calls, table |-> tbl]

HttpOk(body, calls, tbl) ==
    [raised |-> FALSE, status |-> 200, detail |-> "", body |-> body,
     calls |-> calls, table |-> tbl]

\* the id SQLite gives a row inserted without one: one more than the largest
NextId(tbl) == IF tbl = {} THEN 1 ELSE 1 + (CHOOSE n \in {r.id : r \in tbl} : \A r \in tbl : r.id <= n)

\* ReviewRecord(...), as committed: id by the table, created_at by the
\* server default CURRENT_TIMESTAMP
ReviewRecord(name, formatted_review, lang, file_size, processing_time, tbl, now) ==
    [id |-> NextId(tbl),
     filename |-> name,
     review_json |-> formatted_review,
     overall_score |-> formatted_review.overall_score,
     language |-> lang,
     file_size |-> get_file_size_mb(file_size),
     processing_time |-> processing_time,
     total_issues |-> formatted_review.total_issues,
     critical_issues |-> formatted_review.critical_issues,
     high_issues |-> formatted_review.high_issues,
     medium_issues |-> formatted_review.medium_issues,
     low_issues |-> formatted_review.low_issues,
     created_at |-> now]


\* what the parameter db of a handler is: the Session FastAPI injects for a
\* request routed to it, or, when the handler is called as a plain function
\* without the argument, the parameter's default, the Depends(...) object
SESSION == "Session"

DEPENDS == "Depends"

\* lines 116-143 of upload_and_review_code: the try block that saves the
\* review and its handler, then the return. calls are those made before.
\* A Depends object has neither add nor rollback: db.add raises
\* AttributeError, and so does the db.rollback() of the except block, which
\* leaves the outer try through its `except Exception`.
save_review(name, formatted_review, lang, file_size, processing_time, db, env, tbl, now, calls) ==
    LET new_review == ReviewRecord(name, formatted_review, lang, file_size,
                                   processing_time, tbl, now)
    IN  IF db = DEPENDS
        THEN HttpError(500, "An error occurred while processing the file",
                       calls \o <<"add", "rollback">>, tbl)
        ELSE CASE env.db = "add" ->
                    HttpOk(formatted_review, calls \o <<"add", "rollback">>, tbl)
               [] env.db = "commit" ->
                    HttpOk(formatted_review, calls \o <<"add", "commit", "rollback">>, tbl)
               [] env.db = "refresh" ->
                    HttpOk(formatted_review,
                           calls \o <<"add", "commit", "refresh", "rollback">>,
                           tbl \cup {new_review})
               [] OTHER ->
                    HttpOk(("review_id" :> new_review.id) @@ formatted_review,
                           calls \o <<"add", "commit", "refresh">>,
                           tbl \cup {new_review})

\* lines 106-114: the PDF, when asked for
with_pdf(formatted_review, name, export_pdf, env) ==
    IF ~export_pdf THEN formatted_review
    ELSE IF env.pdf = "ok" THEN ("pdf_report" :> pdf_link(name)) @@ formatted_review
    ELSE ("pdf_error" :> "Failed to generate PDF report") @@ formatted_review

\* lines 87-143: the review of a file that passed the checks
formatted_review_of(file, review_data, lang, export_pdf, env) ==
    with_pdf([file_size |-> get_file_size_mb(file.size),
              language |-> lang,
              processing_time |-> env.elapsed]
             @@ format_review(review_data, file.filename),
             file.filename, export_pdf, env)

review_file(file, content_, export_pdf, db, env, tbl, now, real, resp, calls) ==
    Only({IF rv.raised
          THEN HttpError(500, "An error occurred while processing the file",
                         calls \o <<"analyze_code">>, tbl)
          ELSE Only({save_review(file.filename, formatted_review, lang.value, file.size,
                                 env.elapsed, db, env, tbl, now,
                                 calls \o <<"analyze_code", "detect_language", "format_review">>
                                       \o (IF export_pdf THEN <<"generate_pdf">> ELSE <<>>)) :
                       formatted_review \in
                           {formatted_review_of(file, rv.value, lang.value, export_pdf, env)}}) :
            rv \in {analyze_code(content_, file.filename, real, resp)},
            lang \in {detect_language(file.filename)}})

\* upload_and_review_code(file, export_pdf, db)
upload_and_review_code(file, export_pdf, db, env, tbl, now, real, resp) ==
    IF ~validate_file_extension(file.filename)
    THEN HttpError(400, "File type not supported", <<"validate_file_extension">>, tbl)
    ELSE IF file.size > MAX_FILE_SIZE_BYTES
    THEN HttpError(413, "File size too large", <<"validate_file_extension", "read">>, tbl)
    ELSE IF file.size = 0
    THEN HttpError(400, "File is empty.", <<"validate_file_extension", "read">>, tbl)
    ELSE IF file.decoded.raised
    THEN HttpError(400, "File contains invalid characters",
                   <<"validate_file_extension", "read", "decode">>, tbl)
    ELSE review_file(file, file.decoded.value, export_pdf, db, env, tbl, now, real, resp,
                     <<"validate_file_extension", "read", "decode">>)

\* database/db.py get_db_session: SessionLocal(), one more Session open
get_db_session(open) == open + 1

\* database/db.py close_session: session.close(), one Session fewer open
close_session(open) == open - 1

\* the Sessions open at once that the model follows
MaxSessions == 4

\* pdf_generator.py lines 29-30: f"{base_filename}_review_report.pdf"
pdf_filename(name) == <<splitext_root(name), "_review_report.pdf">>

\* PDFGenerator.generate_pdf: the directory reports/ once the document of
\* review_data is built at reports/<pdf_filename>, a file of that name
\* already there being written over
generate_pdf(dir, review_data, name) ==
    [f \in DOMAIN dir \cup {pdf_filename(name)} |->
        IF f = pdf_filename(name) THEN review_data ELSE dir[f]]

\* whether a call of upload_and_review_code got as far as line 110
PdfAsked(out) == \E k \in DOMAIN out.calls : out.calls[k] = "generate_pdf"

\* the formatted_review that line 110 hands to generate_pdf
pdf_review_data(file, env, real, resp) ==
    formatted_review_of(file, analyze_code(file.decoded.value, file.filename, real, resp).value,
                        detect_language(file.filename).value, FALSE, env)

\* the directory reports/ after the call of upload_and_review_code on file
\* that came to out
reports_after(dir, out, file, env, real, resp) ==
    IF PdfAsked(out) /\ env.pdf = "ok"
    THEN generate_pdf(dir, pdf_review_data(file, env, real, resp), file.filename)
    ELSE dir

\* the pdf_report link of the dict a call returned, with the report it was
\* made for
links_of(out, file, env, real, resp) ==
    IF ~out.raised /\ "pdf_report" \in DOMAIN out.body
    THEN {[pdf_report |-> out.body.pdf_report,
           review_data |-> pdf_review_data(file, env, real, resp)]}
    ELSE {}

\* the directory reports/ after the calls that upload_and_review_multiple_files
\* made on files, from the k-th on
RECURSIVE reports_after_each(_, _, _, _, _, _, _)
reports_after_each(dir, outcomes, files, env, real, resp, k) ==
    IF k > Len(outcomes) THEN dir
    ELSE reports_after_each(reports_after(dir, outcomes[k], files[k], env, real, resp),
                            outcomes, files, env, real, resp, k + 1)

\* routes/review.py download_pdf(filename): 404 when reports/<filename> is
\* no file, else the file
download_pdf(pdf_name, dir) ==
    IF pdf_name \notin DOMAIN dir THEN [status |-> 404, file |-> NoBody]
    ELSE [status |-> 200, file |-> dir[pdf_name]]

\* len(files) > 5
FileLimit == 5

\* the dict appended for a file whose call raised HTTPException
error_result(file, detail) ==
    [filename |-> IF file.filename = <<>> THEN <<"u", "n", "k", "n", "o", "w", "n">>
                  ELSE file.filename,
     file_size |-> 0,
     language |-> "Unknown",
     error |-> detail,
     processing_time |-> 0]

\* the loop of upload_and_review_multiple_files from file k on: results and
\* the outcomes of the calls made so far, the table as they left it
RECURSIVE multiple_files_from(_, _, _, _, _, _, _, _, _, _)
multiple_files_from(files, k, export_pdf, envs, tbl, now, real, resp, results, outcomes) ==
    IF k > Len(files) THEN [results |-> results, outcomes |-> outcomes, table |-> tbl]
    ELSE Only({multiple_files_from(files, k + 1, export_pdf, envs, out.table, now, real, resp,
                   Append(results, IF out.raised THEN error_result(files[k], out.detail)
                                   ELSE out.body),
                   Append(outcomes, out)) :
                 out \in {upload_and_review_code(files[k], export_pdf, DEPENDS, envs[k],
                                                 tbl, now, real, resp)}})

\* faulty variant: the number of files is not checked
upload_and_review_multiple_files_NoLimit(files, export_pdf, envs, tbl, now, real, resp) ==
    Only({[raised |-> FALSE, status |-> 200, detail |-> "",
           results |-> run.results, outcomes |-> run.outcomes, table |-> run.table] :
            run \in {multiple_files_from(files, 1, export_pdf, envs, tbl, now, real, resp,
                                         <<>>, <<>>)}})

\* upload_and_review_multiple_files(files, export_pdf): the handler calls
\* upload_and_review_code(file, export_pdf), without a db
upload_and_review_multiple_files(files, export_pdf, envs, tbl, now, real, resp) ==
    IF Len(files) > FileLimit
    THEN [raised |-> TRUE, status |-> 400, detail |-> "Maximum 5 files allowed per request.",
          results |-> <<>>, outcomes |-> <<>>, table |-> tbl]
    ELSE Only({[raised |-> FALSE, status |-> 200, detail |-> "",
                results |-> run.results, outcomes |-> run.outcomes, table |-> run.table] :
                 run \in {multiple_files_from(files, 1, export_pdf, envs, tbl, now, real, resp,
                                              <<>>, <<>>)}})


(***************************************************************************)
(* routes/history.py: the history routes, on the rows of review_records.   *)
(***************************************************************************)
\* the results a SELECT ... ORDER BY created_at DESC may return: every
\* arrangement of the rows with created_at non-increasing; the order of rows
\* with equal created_at is not fixed by the query
Orderings(tbl) ==
    {s \in [1..Cardinality(tbl) -> tbl] :
        /\ \A i, j \in DOMAIN s : i # j => s[i] # s[j]
        /\ \A i, j \in DOMAIN s : i < j => s[i].created_at >= s[j].created_at}

\* ReviewResponse(...) of a row
ReviewResponse(row) ==
    [id |-> row.id, filename |-> row.filename, overall_score |-> row.overall_score,
     language |-> row.language, file_size |-> row.file_size,
     processing_time |-> row.processing_time, total_issues |-> row.total_issues,
     critical_issues |-> row.critical_issues, high_issues |-> row.high_issues,
     medium_issues |-> row.medium_issues, low_issues |-> row.low_issues,
     created_at |-> row.created_at]

\* get_review_history(page, per_page, db), ordered being the result of the
\* ordered query without its offset and limit
get_review_history(page, per_page, tbl, ordered) ==
    LET offset == (page - 1) * per_page
        reviews == SubSeq(ordered, offset + 1, Min(offset + per_page, Len(ordered)))
    IN  [status |-> 200,
         reviews |-> [k \in 1..Len(reviews) |-> ReviewResponse(reviews[k])],
         total_count |-> Cardinality(tbl),
         page |-> page,
         per_page |-> per_page]

\* db.query(ReviewRecord).filter(ReviewRecord.id == review_id).first()
first_with_id(tbl, review_id) ==
    IF \E r \in tbl : r.id = review_id
    THEN {CHOOSE r \in tbl : r.id = review_id}
    ELSE {}

\* get_review_by_id(review_id, db): ReviewDetailResponse(...) of the row
get_review_by_id(review_id, tbl) ==
    LET found == first_with_id(tbl, review_id)
    IN  IF found = {} THEN [status |-> 404, found |-> {}]
        ELSE [status |-> 200, found |-> found]

\* a faulty variant: the delete is never committed, the row stays
delete_row_NotCommitted(tbl, review_id) == tbl

\* the rows after db.delete(review); db.commit()
delete_row(tbl, review_id) == {r \in tbl : r.id # review_id}

\* delete_review(review_id, db); env.db = "commit" when the commit raises
delete_review(review_id, tbl, env) ==
    LET found == first_with_id(tbl, review_id)
    IN  IF found = {} THEN [status |-> 404, found |-> {}, table |-> tbl]
        ELSE IF env.db = "commit" THEN [status |-> 500, found |-> {}, table |-> tbl]
        ELSE [status |-> 200, found |-> found, table |-> delete_row(tbl, review_id)]


(***************************************************************************)
(* The requests the routes are served with.                                *)
(***************************************************************************)
MaxFiles == 6
MaxRows == 3
MaxId == 4
MaxClock == 2
MaxPage == 3
MaxPerPage == 2

\* "c.py", "c.Py", "py", "c.y" and ""
UploadNames ==
    {<<"c", ".", "p", "y">>, <<"c", ".", "P", "y">>, <<"p", "y">>, <<"c", ".", "y">>, <<>>}

\* "print(x", "tmp=n/n", and "    def x" / "print(x"
UploadTexts ==
    {[lines |-> <<<<"print(", "x">>>>, pad |-> 0],
     [lines |-> <<<<"tmp", "=", "n", "/", "n">>>>, pad |-> 0],
     [lines |-> <<<<INDENT, "def ", "x">>, <<"print(", "x">>>>, pad |-> 0]}

\* the text of no byte, and a text one line too long for the ceiling: an
\* empty line and as many lines "x" as make MAX_FILE_SIZE_BYTES + 2 bytes
EmptyText == [lines |-> <<<<>>>>, pad |-> 0]

OversizeText == [lines |-> <<<<>>>>, pad |-> MAX_FILE_SIZE_BYTES \div 2 + 1]

UploadFiles ==
    {TextFile(n, c) : n \in UploadNames, c \in UploadTexts \cup {EmptyText, OversizeText}}
    \cup {BinaryFile(n, s) : n \in UploadNames, s \in {3, MAX_FILE_SIZE_BYTES + 1}}

\* the processing times measured, in hundredths of a second
ProcessingTimes == {52, 201}

UploadEnvs ==
    [pdf : {"ok", "raise"}, db : {"ok", "add", "commit", "refresh"}, elapsed : ProcessingTimes]

\* the files of a request of several: a good one, one that is no text and
\* one of a type not allowed
MultiFiles ==
    {TextFile(<<"c", ".", "p", "y">>, [lines |-> <<<<"print(", "x">>>>, pad |-> 0]),
     BinaryFile(<<"c", ".", "p", "y">>, 3),
     TextFile(<<"c", ".", "y">>, [lines |-> <<<<"print(", "x">>>>, pad |-> 0])}

MultiEnvs == [pdf : {"ok", "raise"}, db : {"ok"}, elapsed : {52}]

\* the upload whose reviews fill the table of the history routes
HistoryFiles ==
    {TextFile(<<"c", ".", "p", "y">>, [lines |-> <<<<"print(", "x">>>>, pad |-> 0])}

HistoryEnvs == [pdf : {"ok"}, db : {"ok", "commit", "refresh"}, elapsed : {52}]

(***************************************************************************)
(* The state machine of the routes: one action per request served.         *)
(***************************************************************************)
ServicesIdle ==
    /\ filename = <<>>
    /\ content = EmptyText
    /\ use_real_llm = FALSE
    /\ response = NoResponse
    /\ pc = "idle"
    /\ language = None
    /\ review = None
    /\ report = None

InitRoutes == ServicesIdle /\ RoutesIdle /\ TasksIdle

\* POST /api/upload with a file of files in a world of envs: FastAPI calls
\* upload_and_review_code with a Session of get_db_session
UploadWith(files, envs) ==
    /\ sessions < MaxSessions
    /\ \E file \in files, export_pdf \in BOOLEAN, env \in envs :
        \E out \in {upload_and_review_code(file, export_pdf, SESSION, env, table, clock,
                                            use_real_llm, response)} :
            /\ request' = [route |-> "upload", file |-> file, export_pdf |-> export_pdf,
                           env |-> env]
            /\ reply' = [status |-> out.status, detail |-> out.detail, body |-> out.body]
            /\ handled' = <<out>>
            /\ table' = out.table
            /\ live' = live \cup (out.table \ table)
            /\ sessions' = get_db_session(sessions)
            /\ reports' = reports_after(reports, out, file, env, use_real_llm, response)
            /\ links' = links \cup links_of(out, file, env, use_real_llm, response)
            /\ UNCHANGED <<clock, serviceVars, taskVars>>

\* POST /api/upload, the first request served
UploadCode ==
    /\ request = NoRequest
    /\ UploadWith(UploadFiles, UploadEnvs)

\* POST /api/upload-multiple, the first request served
UploadMultiple ==
    /\ request = NoRequest
    /\ \E files \in SeqsUpTo(MultiFiles, MaxFiles), export_pdf \in BOOLEAN, env \in MultiEnvs :
        \E out \in {upload_and_review_multiple_files(files, export_pdf,
                       [k \in 1..Len(files) |-> env], table, clock, use_real_llm, response)} :
            /\ request' = [route |-> "upload-multiple", files |-> files,
                           export_pdf |-> export_pdf, env |-> env]
            /\ reply' = [status |-> out.status, detail |-> out.detail, results |-> out.results]
            /\ handled' = out.outcomes
            /\ table' = out.table
            /\ live' = live \cup (out.table \ table)
            /\ reports' = reports_after_each(reports, out.outcomes, files, env,
                                              use_real_llm, response, 1)
            /\ links' = links \cup UNION {links_of(out.outcomes[k], files[k], env,
                                                    use_real_llm, response) :
                                           k \in DOMAIN out.outcomes}
            /\ UNCHANGED <<sessions, clock, serviceVars, taskVars>>

\* POST /api/upload while the table has room
SaveReview ==
    /\ Cardinality(table) < MaxRows
    /\ NextId(table) <= MaxId
    /\ UploadWith(HistoryFiles, HistoryEnvs)

\* a second passes
Tick ==
    /\ clock < MaxClock
    /\ clock' = clock + 1
    /\ UNCHANGED <<table, request, reply, handled, live, sessions, reports, links,
                   serviceVars, taskVars>>

\* GET /api/history/?page=&per_page=
GetReviewHistory ==
    \E page \in 1..MaxPage, per_page \in 1..MaxPerPage, ordered \in Orderings(table) :
        /\ request' = [route |-> "history", page |-> page, per_page |-> per_page]
        /\ reply' = get_review_history(page, per_page, table, ordered)
        /\ handled' = <<>>
        /\ sessions' = close_session(get_db_session(sessions))
        /\ UNCHANGED <<table, clock, live, reports, links, serviceVars, taskVars>>

\* GET /api/history/{review_id}
GetReviewById ==
    \E review_id \in 1..MaxId :
        /\ request' = [route |-> "get", review_id |-> review_id]
        /\ reply' = get_review_by_id(review_id, table)
        /\ handled' = <<>>
        /\ sessions' = close_session(get_db_session(sessions))
        /\ UNCHANGED <<table, clock, live, reports, links, serviceVars, taskVars>>

\* DELETE /api/history/{review_id}
DeleteReview ==
    \E review_id \in 1..MaxId, env \in [db : {"ok", "commit"}] :
        \E out \in {delete_review(review_id, table, env)} :
            /\ request' = [route |-> "delete", review_id |-> review_id, env |-> env]
            /\ reply' = [status |-> out.status, found |-> out.found]
            /\ handled' = <<>>
            /\ table' = out.table
            /\ live' = IF out.status = 200 THEN {r \in live : r.id # review_id} ELSE live
            /\ sessions' = close_session(get_db_session(sessions))
            /\ UNCHANGED <<clock, reports, links, serviceVars, taskVars>>

NextUpload == UploadCode \/ UploadMultiple

\* one request to an upload route, on every file
SpecUpload == InitRoutes /\ [][NextUpload]_vars

NextStore == SaveReview \/ GetReviewById \/ DeleteReview

\* reviews saved, fetched and deleted by id
SpecStore == InitRoutes /\ [][NextStore]_vars

NextHistory == SaveReview \/ Tick \/ GetReviewHistory

\* reviews saved as time passes, and listed
SpecHistory == InitRoutes /\ [][NextHistory]_vars


(***************************************************************************)
(* Properties of the upload routes.                                        *)
(***************************************************************************)
\* the call log holds the collaborator
Called(out, what) == \E j \in DOMAIN out.calls : out.calls[j] = what

\* the file the k-th call of upload_and_review_code of the request was for
HandledFile(k) == IF request.route = "upload" THEN request.file ELSE request.files[k]

\* the call passed the checks of the handler: the engine was invoked
PassedValidation(out) == Called(out, "analyze_code")

\* the call returned the formatted report of its file
ReturnsReport(out) ==
    /\ ~out.raised
    /\ out.status = 200
    /\ "overall_score" \in DOMAIN out.body
    /\ "quality_metrics" \in DOMAIN out.body

----
\* C11: for every upload that passes validation, a failure of a persistence
\* step (add, commit or refresh) does not fail the request: the handler
\* returns the computed formatted report, without a review_id, and no error.
C11_PersistenceFailureKeepsReport ==
    \A k \in DOMAIN handled :
        (PassedValidation(handled[k]) /\ Called(handled[k], "rollback")) =>
            /\ ReturnsReport(handled[k])
            /\ "review_id" \notin DOMAIN handled[k].body

----
\* C12: when export_pdf is asked for and rendering the PDF raises, the upload
\* handler returns the computed report, with a pdf_error marker and no
\* pdf_report link, and has attempted to persist the review afterwards.
C12_PdfFailureKeepsReport ==
    \A k \in DOMAIN handled :
        (Called(handled[k], "generate_pdf") /\ request.env.pdf = "raise") =>
            /\ ReturnsReport(handled[k])
            /\ "pdf_error" \in DOMAIN handled[k].body
            /\ "pdf_report" \notin DOMAIN handled[k].body
            /\ Called(handled[k], "add")

----
\* the filename has an extension, the text after its last '.', and the
\* extension is, but for case, one of the allow-list
ExtensionAllowed(name) ==
    /\ \E k \in DOMAIN name : name[k] = "."
    /\ LET last == CHOOSE k \in DOMAIN name :
                       name[k] = "." /\ \A j \in DOMAIN name : j > k => name[j] # "."
       IN  (<<".">> \o lower(SubSeq(name, last + 1, Len(name)))) \in ALLOWED_EXTENSIONS

\* the status the checks of the handler, in their order, reject the file with; 0 for none
RejectionOf(file) ==
    IF ~ExtensionAllowed(file.filename) THEN 400
    ELSE IF file.size > 200 * 1024 THEN 413
    ELSE IF file.size = 0 THEN 400
    ELSE IF file.decoded.raised THEN 400
    ELSE 0

\* C13: a request whose extension is outside the allow-list, whose size
\* exceeds the ceiling, whose content is empty or whose bytes are no UTF-8 is
\* rejected (400, 413, 400, 400, the checks in that order) and for it the
\* engine is not invoked, no PDF rendered and no record persisted.
C13_RejectedBeforeAnalysis ==
    \A k \in DOMAIN handled :
        RejectionOf(HandledFile(k)) # 0 =>
            /\ handled[k].raised
            /\ handled[k].status = RejectionOf(HandledFile(k))
            /\ ~Called(handled[k], "analyze_code")
            /\ ~Called(handled[k], "generate_pdf")
            /\ ~Called(handled[k], "add")
            /\ ~Called(handled[k], "commit")
            /\ handled[k].table = {}

----
\* the report POST /api/upload returns for the file, but for its review_id
SingleUploadBody(file) ==
    upload_and_review_code(file, request.export_pdf, SESSION,
                           [pdf |-> request.env.pdf, db |-> "add",
                            elapsed |-> request.env.elapsed],
                           {}, clock, use_real_llm, response).body

\* C14: a request of at most 5 files has one result per file, in the order
\* of the files: for a file that passes validation the formatted review the
\* single-file upload returns for it, for a file that fails an error entry,
\* the files after it being processed all the same.
C14_MultiMatchesSingle ==
    (request.route = "upload-multiple" /\ Len(request.files) <= 5) =>
        /\ reply.status = 200
        /\ Len(reply.results) = Len(request.files)
        /\ \A k \in DOMAIN request.files :
              IF RejectionOf(request.files[k]) = 0
              THEN /\ "error" \notin DOMAIN reply.results[k]
                   /\ [f \in DOMAIN reply.results[k] \ {"review_id"} |-> reply.results[k][f]]
                        = SingleUploadBody(request.files[k])
              ELSE /\ "error" \in DOMAIN reply.results[k]
                   /\ reply.results[k].filename = request.files[k].filename

----
\* C15: a request of more than 5 files is rejected with 400 before any of
\* its files is validated, analysed, rendered or persisted.
C15_TooManyFilesRejected ==
    (request.route = "upload-multiple" /\ Len(request.files) > 5) =>
        /\ reply.status = 400
        /\ reply.results = <<>>
        /\ handled = <<>>
        /\ table = {}

\* six files, the first of them a good one
C15_Witness ==
    /\ request.route = "upload-multiple"
    /\ Len(request.files) = 6
    /\ RejectionOf(request.files[1]) = 0
    /\ reply.status = 400


----
(***************************************************************************)
(* Properties of the history routes.                                       *)
(***************************************************************************)
\* the rows saved and not deleted since that have the id
LiveWithId(review_id) == {r \in live : r.id = review_id}

\* the step serves DELETE /api/history/{review_id}
DeleteServed == request'.route = "delete"

\* what a DELETE does to the records: of an absent id 404 and nothing, of a
\* present one either its removal and no other (200) or, the commit having
\* failed, nothing (500)
DeleteFollowsStore ==
    LET gone == LiveWithId(request'.review_id)
    IN  IF gone = {}
        THEN reply'.status = 404 /\ table' = table
        ELSE \/ reply'.status = 200 /\ reply'.found = gone /\ table' = table \ gone
             \/ reply'.status = 500 /\ table' = table

\* what a GET answers: the record of the id, or 404 when none is live
GetFollowsStore ==
    request.route = "get" =>
        IF LiveWithId(request.review_id) = {}
        THEN reply.status = 404 /\ reply.found = {}
        ELSE reply.status = 200 /\ reply.found = LiveWithId(request.review_id)

\* C16: after any sequence of saves and deletes, GET of an id returns the
\* stored record exactly when a record of that id was saved and not deleted
\* since, and 404 otherwise; DELETE of an absent id returns 404 and leaves
\* the records as they were, a successful DELETE removes the record of that
\* id and no other.
C16_GetAndDeleteFollowStore ==
    /\ [](table = live /\ Cardinality({r.id : r \in table}) = Cardinality(table)
          /\ GetFollowsStore)
    /\ [][DeleteServed => DeleteFollowsStore]_vars

\* a GET of an id that was saved and deleted, a record saved after it being
\* there still: 404
C16_Witness ==
    /\ request.route = "get"
    /\ reply.status = 404
    /\ \E r \in table : r.id > request.review_id


----
\* the records newest first by creation: ids are given in the order of the
\* saves, and no record is deleted here
NewestFirst(tbl) ==
    CHOOSE s \in [1..Cardinality(tbl) -> tbl] :
        \A i, j \in DOMAIN s : i < j => s[i].id > s[j].id

\* the ids of the page of the records newest first
PageOfNewest(page, per_page, tbl) ==
    LET newest == NewestFirst(tbl)
        skipped == (page - 1) * per_page
    IN  [k \in 1..Max(0, Min(per_page, Len(newest) - skipped)) |-> newest[skipped + k].id]

\* C17: GET /api/history returns the records newest first by creation,
\* skipping the first (page - 1) * per_page of them and returning at most
\* per_page; total_count is the number of stored records whatever the page,
\* and a page past the end is an empty list.
C17_NewestFirstPage ==
    request.route = "history" =>
        /\ reply.status = 200
        /\ reply.total_count = Cardinality(table)
        /\ [k \in DOMAIN reply.reviews |-> reply.reviews[k].id]
             = PageOfNewest(request.page, request.per_page, table)


----
(***************************************************************************)
(* Concurrent calls on the module-level instances llm_review_service and   *)
(* report_formatter. A call in flight is a task: its arguments, its        *)
(* position pc, its local variables and, once done, its result. The        *)
(* instances' attributes are written by __init__ only; the one state a     *)
(* call writes outside its own frame is that of the generator of the       *)
(* module random, which time.sleep(random.uniform(0.5, 2.0)) advances.     *)
(***************************************************************************)
MaxTasks == 3

\* random.uniform(0.5, 2.0), in hundredths of a second, of a generator in
\* the given state
random_uniform(state) == 50 + ((state * 37) % 151)

\* the arguments of the calls: analyze_code(content, filename) and
\* format_review(review_data, filename)
AnalyzeArgs ==
    {[content |-> c, filename |-> <<"c", ".", "p", "y">>] :
        c \in {[lines |-> <<<<"print(", "x">>>>, pad |-> 0],
               [lines |-> <<<<"tmp", "=", "n", "/", "n">>>>, pad |-> 0]}}

FormatArgs ==
    {[review_data |-> analyze_with_mock(a.content, a.filename, "Python").value,
      filename |-> a.filename] :
        a \in {[content |-> [lines |-> <<<<"tmp", "=", "n", "/", "n">>>>, pad |-> 0],
                filename |-> <<"c", ".", "p", "y">>]}}

NoResult == NoBody

\* a call just made
NewTask(op, args) ==
    [op |-> op, args |-> args, pc |-> IF op = "analyze" THEN "called" ELSE "score",
     language |-> "", delay |-> 0, overall_score |-> 0, result |-> NoResult]

\* a faulty variant: the mock review's score follows the number drawn
mock_result_Jitter(task) ==
    LET out == analyze_with_mock(task.args.content, task.args.filename, task.language)
    IN  IF out.raised THEN out
        ELSE Returned([out.value EXCEPT !.overall_score = 1 + (task.delay % 10)])

\* lines 201-210 of _analyze_with_mock, after the sleep
mock_result(task) ==
    analyze_with_mock(task.args.content, task.args.filename, task.language)

\* the dict format_review returns, overall_score being its local variable
format_result(task) ==
    [format_review(task.args.review_data, task.args.filename) EXCEPT
        !.overall_score = task.overall_score,
        !.summary = formatter_generate_summary(task.args.review_data, task.overall_score)]

\* a caller calls llm_review_service.analyze_code
StartAnalyze ==
    /\ Len(tasks) < MaxTasks
    /\ \E a \in AnalyzeArgs : tasks' = Append(tasks, NewTask("analyze", a))
    /\ UNCHANGED <<rng, serviceVars, routeVars>>

\* a caller calls report_formatter.format_review
StartFormat ==
    /\ Len(tasks) < MaxTasks
    /\ \E a \in FormatArgs : tasks' = Append(tasks, NewTask("format", a))
    /\ UNCHANGED <<rng, serviceVars, routeVars>>

\* analyze_code up to the call of _analyze_with_mock: language detected,
\* self.use_real_llm read
AnalyzeCalled(i) ==
    /\ tasks[i].pc = "called"
    /\ ~use_real_llm
    /\ tasks' = [tasks EXCEPT ![i].language = detect_language(tasks[i].args.filename).value,
                              ![i].pc = "sleep"]
    /\ UNCHANGED <<rng, serviceVars, routeVars>>

\* time.sleep(random.uniform(0.5, 2.0))
AnalyzeSleep(i) ==
    /\ tasks[i].pc = "sleep"
    /\ tasks' = [tasks EXCEPT ![i].delay = random_uniform(rng), ![i].pc = "mock"]
    /\ rng' = rng + 1
    /\ UNCHANGED <<serviceVars, routeVars>>

\* the rest of _analyze_with_mock, and the return
AnalyzeMock(i) ==
    /\ tasks[i].pc = "mock"
    /\ tasks' = [tasks EXCEPT ![i].result = mock_result(tasks[i]), ![i].pc = "done"]
    /\ UNCHANGED <<rng, serviceVars, routeVars>>

\* overall_score = self._calculate_overall_score(review_data)
FormatScore(i) ==
    /\ tasks[i].pc = "score"
    /\ tasks' = [tasks EXCEPT ![i].overall_score = calculate_overall_score(tasks[i].args.review_data),
                              ![i].pc = "report"]
    /\ UNCHANGED <<rng, serviceVars, routeVars>>

\* the rest of format_review, and the return
FormatReport(i) ==
    /\ tasks[i].pc = "report"
    /\ tasks' = [tasks EXCEPT ![i].result = format_result(tasks[i]), ![i].pc = "done"]
    /\ UNCHANGED <<rng, serviceVars, routeVars>>

TaskStep ==
    \E i \in DOMAIN tasks :
        AnalyzeCalled(i) \/ AnalyzeSleep(i) \/ AnalyzeMock(i) \/ FormatScore(i) \/ FormatReport(i)

NextConcurrent == StartAnalyze \/ StartFormat \/ TaskStep

\* up to MaxTasks calls, their steps interleaved in every way
SpecConcurrent == InitRoutes /\ [][NextConcurrent]_vars

\* what the call returns by its arguments alone
ResultOf(task) ==
    IF task.op = "analyze"
    THEN analyze_code(task.args.content, task.args.filename, FALSE, NoResponse)
    ELSE format_review(task.args.review_data, task.args.filename)

\* every call that returned, returned what its arguments determine
ResultsByArguments ==
    \A i \in DOMAIN tasks : tasks[i].pc = "done" => tasks[i].result = ResultOf(tasks[i])

\* two calls of the same arguments that returned, returned the same
SameArgumentsSameResult ==
    \A i, j \in DOMAIN tasks :
        (tasks[i].pc = "done" /\ tasks[j].pc = "done"
            /\ tasks[i].op = tasks[j].op /\ tasks[i].args = tasks[j].args)
        => tasks[i].result = tasks[j].result

\* a step writes no attribute of the instances and the frame of one call at most
StepKeepsOthers ==
    /\ use_real_llm' = use_real_llm
    /\ Cardinality({i \in DOMAIN tasks : tasks'[i] # tasks[i]}) <= 1

----
(***************************************************************************)
(* The quality metrics on reviews of many issues: the floor of             *)
(* complexity_score is met from 18 issues on, that of                      *)
(* maintainability_score from 30.                                          *)
(***************************************************************************)
MaxMetricIssues == 31
MaxMetricSuggestions == 6

\* a CodeReview of i issues of the severity and s suggestions
MetricReview(i, s, sev) ==
    CodeReview(<<"readability">>, "modularity", <<<<"potential bugs">>>>,
               SuggestionTexts(s),
               [k \in 1..i |-> CodeIssue(k, IssueTypeOf(sev), sev, <<"issue", k>>, "fix")],
               5, <<<<"summary">>>>)

InitMetrics ==
    /\ filename = <<"c", ".", "p", "y">>
    /\ content = [lines |-> <<<<>>>>, pad |-> 0]
    /\ use_real_llm = TRUE
    /\ response = NoResponse
    /\ pc = "analyzed"
    /\ language = None
    /\ review \in {Returned(MetricReview(i, s, sev)) :
                      i \in 0..MaxMetricIssues, s \in 0..MaxMetricSuggestions,
                      sev \in {LOW, CRITICAL}}
    /\ report = None
    /\ RoutesIdle
    /\ TasksIdle

\* the formatter on reviews of up to MaxMetricIssues issues
SpecMetrics == InitMetrics /\ [][FormatReview]_vars

\* format_review has returned the report of the review
Formatted == pc = "formatted" /\ ~review.raised

IssueCount == Len(review.value.issues)

SuggestionCount == Len(review.value.suggestions)

\* the metrics of a review of i issues and s suggestions
MetricsAt(i, s) == calculate_quality_metrics(MetricReview(i, s, LOW))

\* neither score of m is below the matching score of n
NotBelow(m, n) ==
    /\ m.complexity_score >= n.complexity_score
    /\ m.maintainability_score >= n.maintainability_score

\* C19: complexity_score and maintainability_score never rise with the
\* number of issues, the number of suggestions held fixed, nor with the
\* number of suggestions, the number of issues held fixed, and neither is
\* ever below 1 or above 10 (10 and 100 tenths).
C19_MetricsMonotoneAndBounded ==
    Formatted =>
        LET m == report.quality_metrics
        IN  /\ m.complexity_score \in 10..100
            /\ m.maintainability_score \in 10..100
            /\ \A i \in IssueCount..(MaxMetricIssues + 1) :
                   NotBelow(m, MetricsAt(i, SuggestionCount))
            /\ \A s \in SuggestionCount..(MaxMetricSuggestions + 1) :
                   NotBelow(m, MetricsAt(IssueCount, s))

\* a review of so many issues that both scores are at the floor
C19_Witness ==
    /\ Formatted
    /\ IssueCount >= 30
    /\ report.quality_metrics.complexity_score = 10
    /\ report.quality_metrics.maintainability_score = 10

\* C20: complexity_score is clamp(10 - 0.5 issues - 0.2 suggestions, 1, 10)
\* and maintainability_score clamp(10 - 0.3 issues - 0.1 suggestions, 1, 10),
\* to one decimal, issues_per_suggestion is issues / max(1, suggestions) to
\* two decimals; with no issue and no suggestion the formatter's score and
\* both scores are 10 and issues_per_suggestion is 0.
C20_MetricsFormula ==
    Formatted =>
        LET m == report.quality_metrics
            per == IF SuggestionCount > 1 THEN SuggestionCount ELSE 1
        IN  /\ m.complexity_score = Clamp(100 - 5 * IssueCount - 2 * SuggestionCount, 10, 100)
            /\ m.maintainability_score = Clamp(100 - 3 * IssueCount - SuggestionCount, 10, 100)
            /\ 2 * (m.issues_per_suggestion * per - 100 * IssueCount) <= per
            /\ 2 * (100 * IssueCount - m.issues_per_suggestion * per) <= per
            /\ (IssueCount = 0 /\ SuggestionCount = 0) =>
                   /\ report.overall_score = 10
                   /\ m.complexity_score = 100
                   /\ m.maintainability_score = 100
                   /\ m.issues_per_suggestion = 0

\* the report of a review of no issue and no suggestion
C20_Witness ==
    /\ Formatted
    /\ IssueCount = 0
    /\ SuggestionCount = 0
    /\ report.quality_metrics.issues_per_suggestion = 0


----
(***************************************************************************)
(* Properties of the scores and of the detectors.                          *)
(***************************************************************************)
\* the content of one line of 101 characters "x"
LongLineOnly == [lines |-> <<<<X100, "x">>>>, pad |-> 0]

\* the review in hand has one issue, of low severity, and at most 3 suggestions
OneLowIssue ==
    /\ Reviewed
    /\ Len(review.value.issues) = 1
    /\ review.value.issues[1].severity = LOW
    /\ Len(review.value.suggestions) <= 3

\* C21: a review of exactly one low issue and at most 3 suggestions, which
\* is what the engine returns for a content of a single line of more than
\* 100 characters that no other detector matches, gets the formatter's
\* overall_score 10: round(9.5) is 10.
C21_OneLowIssueScoresTen ==
    /\ (ByEngine /\ content = LongLineOnly) =>
           /\ OneLowIssue
           /\ review.value.issues[1].issue_type = "style"
           /\ review.value.issues[1].line_number = 1
    /\ (OneLowIssue /\ pc = "formatted") =>
           /\ FormatterBaseScore(review.value) = 19
           /\ report.overall_score = 10

\* the report of the review of the one long line
C21_Witness ==
    /\ ByEngine
    /\ pc = "formatted"
    /\ content = LongLineOnly
    /\ report.overall_score = 10


----
(***************************************************************************)
(* The scores of reviews of many critical issues: contents of up to        *)
(* MaxCriticalLines lines, each a division, a print or plain, and the      *)
(* reviews of MaxIssues issues, all or all but one of them critical.       *)
(***************************************************************************)
MaxCriticalLines == 6

CriticalLineSamples == { <<"tmp", "=", "n", "/", "n">>, <<"print(", "x">>, <<"x">> }

CriticalContents ==
    {[lines |-> l, pad |-> 0] :
        l \in UNION {[1..k -> CriticalLineSamples] : k \in (MaxCriticalLines - 1)..MaxCriticalLines}}

CriticalReviews ==
    {r \in FormatterReviews : CountSeverity(r.issues, CRITICAL) >= MaxIssues - 1}

InitCritical ==
    /\ filename = <<"c", ".", "p", "y">>
    /\ use_real_llm = FALSE
    /\ response = NoResponse
    /\ language = None
    /\ report = None
    /\ \/ /\ content \in CriticalContents
          /\ pc = "start"
          /\ review = None
       \/ /\ content = [lines |-> <<<<>>>>, pad |-> 0]
          /\ pc = "analyzed"
          /\ review \in {Returned(r) : r \in CriticalReviews}
    /\ RoutesIdle
    /\ TasksIdle

\* the engine and the formatter on reviews of many critical issues
SpecCritical == InitCritical /\ [][Next]_vars

\* the review in hand holds five critical issues or more
FiveCritical == Reviewed /\ CountSeverity(review.value.issues, CRITICAL) >= 5

\* C22: whenever the issue list holds five critical issues or more, the
\* engine's overall_score is 1 and the formatter's overall_score is 1,
\* whatever the other issues, the suggestions and the content.
C22_FiveCriticalScoreOne ==
    FiveCritical =>
        /\ content \in CriticalContents => review.value.overall_score = 1
        /\ pc = "formatted" => report.overall_score = 1

\* the engine's review of a content of five divisions and more, formatted
C22_Witness ==
    /\ FiveCritical
    /\ content \in CriticalContents
    /\ pc = "formatted"
    /\ Len(review.value.issues) > 5
    /\ review.value.overall_score = 1
    /\ report.overall_score = 1


----
\* POST /api/upload has answered 200
Uploaded == request.route = "upload" /\ reply.status = 200

\* the review the engine made of the uploaded file
UploadedReview ==
    analyze_code(request.file.decoded.value, request.file.filename, use_real_llm, response).value

\* the keys format_review gives the report
ReportKeys ==
    {"filename", "overall_score", "summary", "readability", "modularity", "potential_bugs",
     "suggestions", "issues_by_severity", "issues_by_type", "quality_metrics",
     "total_issues", "critical_issues", "high_issues", "medium_issues", "low_issues"}

\* the part of the answer that format_review made
ReportPart(body) == [k \in ReportKeys |-> body[k]]

\* the overall_score a review of that field may have
ReviewScores == 1..10

\* C23: the formatted report does not depend on the review's own
\* overall_score: reviews that differ in it alone give the same report for
\* the same filename; and the score answered to the client and stored with
\* the record is the one the formatter computed.
C23_ReportIgnoresReviewScore ==
    Uploaded =>
        /\ \A s \in ReviewScores :
               ReportPart(reply.body)
                 = format_review([UploadedReview EXCEPT !.overall_score = s],
                                 request.file.filename)
        /\ reply.body.overall_score = calculate_overall_score(UploadedReview)
        /\ \A row \in table :
               /\ row.overall_score = calculate_overall_score(UploadedReview)
               /\ row.review_json.overall_score = row.overall_score

\* an upload answered and stored with the formatter's score, the engine's
\* being another
C23_Witness ==
    /\ Uploaded
    /\ table # {}
    /\ reply.body.overall_score # UploadedReview.overall_score
    /\ \E row \in table : row.overall_score = reply.body.overall_score


----
\* the line holds a docstring delimiter
HasDocDelimiter(line) == Contains(line, DOC) \/ Contains(line, DOC2)

\* line i of the content is immediately followed by a line that starts with
\* a docstring delimiter
FollowedByDocstring(c, i) ==
    /\ i < LineCount(c)
    /\ \/ StartsWith(strip(LineAt(c, i + 1)), DOC)
       \/ StartsWith(strip(LineAt(c, i + 1)), DOC2)

\* one of the two lines before line i holds a docstring delimiter
PrecededByDocstring(c, i) ==
    \E k \in {i - 2, i - 1} : k >= 1 /\ HasDocDelimiter(LineAt(c, k))

\* the documentation issues the engine reported for line i
DocumentationIssues(i) ==
    {k \in DOMAIN review.value.issues :
        /\ review.value.issues[k].issue_type = "documentation"
        /\ review.value.issues[k].line_number = i}

\* C24: a line starting with 'def ' gets a documentation/medium "lacks
\* documentation" issue only when it is neither immediately followed by a
\* line starting with a docstring delimiter nor preceded within the prior 2
\* lines by a line holding one; a 'def ' line immediately followed by a
\* docstring line gets no documentation issue.
C24_DocumentationOnlyWhenUndocumented ==
    ByEngine =>
        \A i \in 1..LineCount(content) :
            DocumentationIssues(i) # {} =>
                /\ StartsWith(strip(LineAt(content, i)), "def ")
                /\ ~FollowedByDocstring(content, i)
                /\ ~PrecededByDocstring(content, i)


----
(***************************************************************************)
(* The long-line detector on lines around the limit, bare and indented.    *)
(***************************************************************************)
MaxLongLines == 3

\* lines of 0, 4, 1, 100, 101, 104, 105 and 104 characters
LongLineSamples ==
    { <<>>, <<INDENT>>, <<"x">>, <<X100>>, <<X100, "x">>,
      <<INDENT, X100>>, <<INDENT, X100, "x">>, <<X100, INDENT>> }

LongLineContents ==
    {[lines |-> l, pad |-> 0] :
        l \in UNION {[1..k -> LongLineSamples] : k \in 1..MaxLongLines}}

InitLongLines ==
    /\ filename = <<"c", ".", "p", "y">>
    /\ content \in LongLineContents
    /\ use_real_llm = FALSE
    /\ response = NoResponse
    /\ pc = "start"
    /\ language = None
    /\ review = None
    /\ report = None
    /\ RoutesIdle
    /\ TasksIdle

\* the engine and the formatter on contents of lines around the limit
SpecLongLines == InitLongLines /\ [][Next]_vars

\* the "line too long" issues of the detection sequence for line i
LineTooLongIssues(issues, i) ==
    {k \in DOMAIN issues :
        /\ issues[k].issue_type = "style"
        /\ issues[k].severity = LOW
        /\ issues[k].description[1] = "Line is too long"
        /\ issues[k].line_number = i}

\* C25: every non-blank line of the content whose length exceeds 100
\* characters contributes exactly one style/low "line too long" issue to
\* the uncapped detection sequence, its line_number the 1-based position of
\* the line, blank lines counted; a line of at most 100 characters
\* contributes none.
C25_LongLinesReported ==
    ByEngine =>
        \A i \in 1..LineCount(content) :
            strip(LineAt(content, i)) # <<>> =>
                Cardinality(LineTooLongIssues(DetectedIssues(content), i))
                  = IF SumLen(LineAt(content, i)) > 100 THEN 1 ELSE 0


----
(***************************************************************************)
(* Properties of the parser of the remote answer.                          *)
(***************************************************************************)
\* the remote model answered a JSON object whose line_wise_issues is a list
\* of objects, the severity of each a string or missing
AnsweredIssues ==
    /\ use_real_llm
    /\ Reviewed
    /\ response.call = "ok"
    /\ response.form \in {"json", "embedded"}
    /\ response.data.t = "dict"
    /\ response.data.line_wise_issues.t = "list"
    /\ \A k \in DOMAIN response.data.line_wise_issues.items :
           /\ response.data.line_wise_issues.items[k].t = "dict"
           /\ response.data.line_wise_issues.items[k].severity.t \in {"str", "absent"}

SeverityNames ==
    { <<"l", "o", "w">>, <<"m", "e", "d", "i", "u", "m">>, <<"h", "i", "g", "h">>,
      <<"c", "r", "i", "t", "i", "c", "a", "l">> }

\* the severity of the entry is, but for case, one of the four names; a
\* missing severity stands for medium
SeverityNamed(entry) ==
    \/ entry.severity.t = "absent"
    \/ entry.severity.t = "str" /\ lower(entry.severity.s) \in SeverityNames

\* the line of the entry is an integer or missing
LineNumbered(entry) == entry.line.t \in {"absent", "null", "num"}

WellFormedEntry(entry) == SeverityNamed(entry) /\ LineNumbered(entry)

\* the issue is the entry, its severity in lower case
IssueOfEntry(issue, entry) ==
    /\ issue.severity = SeverityOf(IF entry.severity.t = "absent"
                                   THEN <<"m", "e", "d", "i", "u", "m">>
                                   ELSE lower(entry.severity.s)).value
    /\ issue.line_number = IF entry.line.t = "num" THEN entry.line.h \div 2 ELSE None
    /\ issue.issue_type = entry.type
    /\ issue.description = entry.issue
    /\ issue.suggestion = entry.fix_suggestion

\* the issues are the entries kept, one for one and in their order
IssuesAre(issues, kept) ==
    /\ Len(issues) = Len(kept)
    /\ \A k \in DOMAIN kept : IssueOfEntry(issues[k], kept[k])

----
(***************************************************************************)
(* Properties of the formatter's grouping and summary.                     *)
(***************************************************************************)
\* the issues of the severity, in the order of the review's list, each
\* reduced to line_number, type, description and suggestion
ReducedOfSeverity(issues, sev) ==
    LET own == SelectSeq(issues, LAMBDA x : x.severity = sev)
    IN  [k \in 1..Len(own) |->
            [line_number |-> own[k].line_number, type |-> own[k].issue_type,
             description |-> own[k].description, suggestion |-> own[k].suggestion]]

\* C27: issues_by_severity has exactly the four keys critical, high, medium
\* and low; every issue of the review is in exactly one bucket, that of its
\* severity, reduced to line_number, type, description and suggestion; and
\* the entries of a bucket keep the order they have in the review's list.
C27_BucketsPartitionIssues ==
    pc = "formatted" =>
        /\ DOMAIN report.issues_by_severity = {"critical", "high", "medium", "low"}
        /\ \A sev \in ReviewSeverity :
               report.issues_by_severity[sev] = ReducedOfSeverity(review.value.issues, sev)
        /\ Len(report.issues_by_severity.critical) + Len(report.issues_by_severity.high)
             + Len(report.issues_by_severity.medium) + Len(report.issues_by_severity.low)
             = Len(review.value.issues)

\* a bucket of two issues that another issue stands between in the review
C27_Witness ==
    /\ pc = "formatted"
    /\ Len(review.value.issues) >= 3
    /\ review.value.issues[1].severity = review.value.issues[3].severity
    /\ review.value.issues[1].severity # review.value.issues[2].severity
    /\ Len(report.issues_by_severity[review.value.issues[1].severity]) >= 2


----
\* the quality adjective of a score
AdjectiveOf(score) ==
    IF score >= 8 THEN "excellent"
    ELSE IF score >= 6 THEN "good"
    ELSE IF score >= 4 THEN "fair"
    ELSE "needs improvement"

\* the sentences of the summary that are the clause
ClausesOf(summary, clause) == {k \in DOMAIN summary : summary[k][1] = clause}

RECURSIVE SumOfNumbers(_)
SumOfNumbers(parts) == IF parts = <<>> THEN 0 ELSE Head(parts)[1] + SumOfNumbers(Tail(parts))

\* what C28 says of the first sentence and of the two clauses
SummaryClauses ==
    LET summary == report.summary
        found == ClausesOf(summary, "Found issues:")
        provided == ClausesOf(summary, "Provided improvement suggestions.")
    IN  /\ summary[1] = <<"Code quality is", AdjectiveOf(report.overall_score),
                          "with an overall score of", report.overall_score>>
        /\ report.overall_score = calculate_overall_score(review.value)
        /\ Cardinality(found) = IF Len(review.value.issues) >= 1 THEN 1 ELSE 0
        /\ Cardinality(provided) = IF review.value.suggestions # <<>> THEN 1 ELSE 0
        /\ \A k \in provided : summary[k][2] = Len(review.value.suggestions)
        /\ \A k \in found :
               /\ summary[k][2] = Len(review.value.issues)
               /\ SumOfNumbers(summary[k][3]) = Len(review.value.issues)
               /\ \A j \in DOMAIN summary[k][3] :
                      summary[k][3][j][2] \in {"critical", "high", "minor"}

\* C28 as stated: the summary starts with a sentence whose adjective the
\* formatter's score chooses; it has an issue-count clause exactly when the
\* review has an issue, and nothing about issues when it has none; it has a
\* suggestions-count clause exactly when there are suggestions; and the
\* critical, high and minor numbers sum to the number of issues.
C28_Original ==
    pc = "formatted" =>
        /\ SummaryClauses
        /\ \A k \in DOMAIN report.summary :
               k = 1 \/ k \in ClausesOf(report.summary, "Found issues:")
                     \/ k \in ClausesOf(report.summary, "Provided improvement suggestions.")

\* C28, amended: as stated, but that a review without issues gets, in the
\* place of the issue-count clause, the sentence "No issues were identified."
C28_SummaryClauses ==
    pc = "formatted" =>
        /\ SummaryClauses
        /\ \A k \in DOMAIN report.summary :
               \/ k = 1
               \/ k \in ClausesOf(report.summary, "Found issues:")
               \/ k \in ClausesOf(report.summary, "Provided improvement suggestions.")
               \/ /\ k = 2
                  /\ review.value.issues = <<>>
                  /\ report.summary[k] = <<"No issues were identified.">>
        /\ review.value.issues = <<>> => report.summary[2] = <<"No issues were identified.">>

\* the summary of a review of no issue and some suggestions, and that of a
\* review of critical, high and minor issues, are both met: this is the first
C28_Witness ==
    /\ pc = "formatted"
    /\ review.value.issues = <<>>
    /\ review.value.suggestions # <<>>
    /\ Len(report.summary) = 3
    /\ report.summary[2] = <<"No issues were identified.">>


----
\* C29: after any sequence of completed requests to the upload and history
\* routes, no Session that a handler got through get_db_session is open:
\* every handler closes its session before it returns. (The handlers of
\* routes/history.py do, in their finally blocks; upload_and_review_code has
\* no call of close_session.)
C29_NoSessionLeftOpen == sessions = 0

(***************************************************************************)
(* Uploads with export_pdf and downloads of the reports they link to.      *)
(***************************************************************************)
\* uploads of one filename with two contents, and of another filename
PdfFiles ==
    {TextFile(<<"c", ".", "p", "y">>, [lines |-> <<<<"print(", "x">>>>, pad |-> 0]),
     TextFile(<<"c", ".", "p", "y">>, [lines |-> <<<<"x">>>>, pad |-> 0]),
     TextFile(<<"d", ".", "p", "y">>, [lines |-> <<<<"x">>>>, pad |-> 0])}

PdfEnvs == [pdf : {"ok", "raise"}, db : {"ok"}, elapsed : {52}]

\* POST /api/upload of one of the files while the table has room
UploadPdf ==
    /\ Cardinality(table) < MaxRows
    /\ NextId(table) <= MaxId
    /\ UploadWith(PdfFiles, PdfEnvs)

\* GET /api/download-pdf/{filename} for a link answered before
DownloadPdf ==
    \E l \in links :
        /\ request' = [route |-> "download-pdf", pdf_report |-> l.pdf_report]
        /\ reply' = download_pdf(<<l.pdf_report[2], l.pdf_report[3]>>, reports)
        /\ handled' = <<>>
        /\ UNCHANGED <<table, clock, live, sessions, reports, links, serviceVars, taskVars>>

NextReports == UploadPdf \/ DownloadPdf

SpecReports == InitRoutes /\ [][NextReports]_vars

\* C30: the pdf_report link an upload returned refers to the PDF of that
\* upload's report, whatever uploads with export_pdf came after it, those of
\* other content under the same filename included: the download of the link
\* never yields the report of another request.
C30_LinkYieldsOwnReport ==
    \A l \in links :
        download_pdf(<<l.pdf_report[2], l.pdf_report[3]>>, reports)
            = [status |-> 200, file |-> l.review_data]

====
